---- MODULE Spec2Model ----
(***************************************************************************)
(* Model of the LMIA explorer repository: the account-provisioning webhook *)
(* (api handler) and the provider-backed auth gate (AuthProvider,          *)
(* AppContent, AuthPage).                                                  *)
(*                                                                         *)
(* JavaScript values are represented as follows: `undefined`/`null` is the *)
(* string Undef, strings are TLA+ strings, a provider error message is a   *)
(* sequence of one-character strings (so that String.includes is a real    *)
(* substring search), and an optional number is a set of at most one       *)
(* integer.                                                                *)
(***************************************************************************)
EXTENDS Integers, Sequences, FiniteSets, TLC

VARIABLES
    \* ---- webhook handler (one serverless invocation at a time) ----
    env,          \* process.env of the deployment
    req,          \* the request of the current invocation
    whPc,         \* "idle" | "awaitInvite" | "done"
    examined,     \* inputs the handler has read so far, in order
    inviteCalls,  \* calls made to supabase.auth.admin.inviteUserByEmail
    inviteResult, \* what the invite call returned (sequence of 0 or 1)
    responses,    \* responses sent through res.status(..).json(..)
    \* ---- auth gate (provider-backed variant) ----
    user,            \* AuthProvider state: User | null
    loading,         \* AuthProvider state
    isRecoveryMode,  \* AuthProvider state
    authMode,        \* AuthPage state `mode`, "unmounted" when not rendered
    sessionLookup,   \* "pending" | "done": the getSession() promise
    submitting,      \* AuthPage state `submitting`
    logoutPending,   \* logout() calls awaiting supabase.auth.signOut()
    updatePending,   \* updatePassword() calls awaiting supabase.auth.updateUser()
    credPending,     \* login() / resetPassword() calls awaiting the provider
    lastOp,          \* the operation processed last (history)
    recoveryBefore,  \* isRecoveryMode before the last operation (history)
    notified,        \* the user of the most recent provider notification, if any (history)
    \* ---- data explorer (LMIAExplorer, both files) ----
    variant,       \* which of the two explorer files runs
    inflight,      \* the dataset fetches not settled yet, each with the language its effect closed over
    fetchLog,      \* how many fetches were started and how many called setRows (history)
    rawData,       \* the array the fetch returned (history)
    mapped,        \* the result of data.map(...) before .filter (history)
    rows,          \* state `rows`
    citiesByProvince, \* useMemo on [rows]: province code to list of cities
    streamOptions, \* useMemo on [rows]: list of program streams
    exLoading,     \* state `loading` of the explorer
    exError,       \* state `error` of the explorer
    language,      \* state `language`
    currentPage,   \* state `currentPage`
    rowsPerPage,   \* state `rowsPerPage`
    employer,      \* filter state
    province,      \* filter state
    city,          \* filter state
    stream,        \* filter state
    noc,           \* filter state (local file only)
    minLMIAs,      \* filter state, the text of the input
    exOp,          \* the explorer operation processed last (history)
    pageBefore,    \* currentPage before the last operation (history)
    \* ---- pagination of a filtered subset of any size ----
    pgItems,       \* the filtered subset
    pgSize,        \* the page size
    pgPages,       \* the slices of pages 1..totalPages, once computed
    \* ---- local-storage auth provider ----
    lsUsers,       \* localStorage "lmia_users": the stored user list
    lsSession,     \* localStorage "lmia_session": <<>> or <<user>>
    lsUser,        \* state `user` of the provider: <<>> or <<user>>
    lsResult,      \* what the last call returned (history)
    lsOp           \* the call processed last (history)

whVars == <<env, req, whPc, examined, inviteCalls, inviteResult, responses>>
authVars == <<user, loading, isRecoveryMode, authMode, sessionLookup,
              submitting, logoutPending, updatePending, credPending, lastOp,
              recoveryBefore, notified>>
exVars == <<variant, inflight, fetchLog, rawData, mapped, rows, citiesByProvince,
            streamOptions, exLoading, exError,
            language, currentPage, rowsPerPage, employer, province, city,
            stream, noc, minLMIAs, exOp, pageBefore>>
pgVars == <<pgItems, pgSize, pgPages>>
lsVars == <<lsUsers, lsSession, lsUser, lsResult, lsOp>>
vars == <<env, req, whPc, examined, inviteCalls, inviteResult, responses,
          user, loading, isRecoveryMode, authMode, sessionLookup,
          submitting, logoutPending, updatePending, credPending, lastOp,
          recoveryBefore, notified,
          variant, inflight, fetchLog, rawData, mapped, rows, citiesByProvince, streamOptions, exLoading, exError,
          language, currentPage, rowsPerPage, employer, province, city,
          stream, noc, minLMIAs, exOp, pageBefore, pgItems, pgSize, pgPages,
          lsUsers, lsSession, lsUser, lsResult, lsOp>>

\* JavaScript undefined / null
Undef == "<undefined>"

\* JavaScript truthiness of a string | undefined value
Truthy(v) == v # Undef /\ v # ""

(***************************************************************************)
(* Webhook handler                                                         *)
(***************************************************************************)

Methods == {"GET", "POST", "PUT"}
SecretValues == {Undef, "", "s1", "s2"}
UrlValues == {Undef, "", "https://db"}
KeyValues == {Undef, "", "key"}
SiteValues == {Undef, "https://site"}
EmailValues == {Undef, "", "a@b.com"}
NameValues == {Undef, "", "Ann"}

DefaultSiteUrl == "https://lmia-search-ui.vercel.app"

Envs == [KAJABI_WEBHOOK_SECRET : SecretValues,
         VITE_SUPABASE_URL : UrlValues,
         SUPABASE_SERVICE_ROLE_KEY : KeyValues,
         SITE_URL : SiteValues]

\* req.body: absent, or an object with optional email and name
NoBody == [present |-> FALSE, email |-> Undef, name |-> Undef]
Bodies == {NoBody} \cup [present : {TRUE}, email : EmailValues, name : NameValues]

Requests == [method : Methods, secret : SecretValues, body : Bodies]
NoReq == [method |-> Undef, secret |-> Undef, body |-> NoBody]

\* Provider error messages, character by character
Already == <<"a","l","r","e","a","d","y">>
MsgRegistered == <<"U","s","e","r"," ","a","l","r","e","a","d","y"," ","r","e","g">>
MsgCapital == <<"A","l","r","e","a","d","y">>
MsgPrefix == <<"a","l","r","e","a","d">>
MsgRate == <<"r","a","t","e"," ","l","i","m","i","t">>
Messages == {Already, MsgRegistered, MsgCapital, MsgPrefix, MsgRate}
ErrStatuses == {{}, {400}, {422}, {500}}

UserIds == {"u1", "u2"}
NoError == [isError |-> FALSE, message |-> <<>>, status |-> {}]
InviteOutcomes ==
    [error : {NoError}, userId : UserIds]
    \cup [error : [isError : {TRUE}, message : Messages, status : ErrStatuses],
          userId : {Undef}]

\* String.prototype.includes
Includes(s, sub) ==
    \E i \in 0..(Len(s) - Len(sub)) :
        \A j \in 1..Len(sub) : s[i + j] = sub[j]

\* req.method !== "POST" (negated)
MethodAllowedMut(r) == r.method # "GET"
MethodAllowed(r) == r.method = "POST"

\* !(!secret || secret !== process.env.KAJABI_WEBHOOK_SECRET)
SecretOkMut(r, e) == r.secret = e.KAJABI_WEBHOOK_SECRET
SecretOk(r, e) == Truthy(r.secret) /\ r.secret = e.KAJABI_WEBHOOK_SECRET

\* !(!supabaseUrl || !serviceRoleKey)
ConfiguredMut(e) == Truthy(e.VITE_SUPABASE_URL) \/ Truthy(e.SUPABASE_SERVICE_ROLE_KEY)
Configured(e) == Truthy(e.VITE_SUPABASE_URL) /\ Truthy(e.SUPABASE_SERVICE_ROLE_KEY)

\* const email = body?.email
BodyEmail(r) == IF r.body.present THEN r.body.email ELSE Undef
\* const name = body?.name
BodyName(r) == IF r.body.present THEN r.body.name ELSE Undef

\* !(!email)
HasEmailStrict(r) == Truthy(BodyEmail(r)) /\ Truthy(BodyName(r))
HasEmailMut(r) == BodyEmail(r) # Undef
HasEmail(r) == Truthy(BodyEmail(r))

\* process.env.SITE_URL || "https://lmia-search-ui.vercel.app"
SiteUrl(e) == IF Truthy(e.SITE_URL) THEN e.SITE_URL ELSE DefaultSiteUrl

\* arguments of supabase.auth.admin.inviteUserByEmail
InviteArgs(r, e) ==
    [email |-> BodyEmail(r),
     name |-> IF Truthy(BodyName(r)) THEN BodyName(r) ELSE "",
     redirectTo |-> SiteUrl(e)]

\* error.message.includes("already") || error.status === 422
IsAlreadyExistsMut(err) == Includes(err.message, Already) /\ 422 \in err.status
IsAlreadyExists(err) == Includes(err.message, Already) \/ 422 \in err.status

Response(status, body) == [status |-> status, body |-> body]

HandlerSyncMut(r, e) ==
    IF ~MethodAllowed(r) THEN
        [examined |-> <<"method">>,
         out |-> <<Response(405, [error |-> "Method not allowed"])>>,
         call |-> <<>>]
    ELSE IF ~SecretOk(r, e) THEN
        [examined |-> <<"method", "secret">>,
         out |-> <<Response(401, [error |-> "Unauthorized"])>>,
         call |-> <<>>]
    ELSE IF ~Configured(e) THEN
        [examined |-> <<"method", "secret", "config">>,
         out |-> <<Response(500, [error |-> "Server misconfigured"])>>,
         call |-> <<>>]
    ELSE IF ~HasEmail(r) THEN
        [examined |-> <<"method", "secret", "config", "body">>,
         out |-> <<Response(400, [error |-> "Missing email in webhook payload"])>>,
         call |-> <<InviteArgs(r, e)>>]
    ELSE
        [examined |-> <<"method", "secret", "config", "body">>,
         out |-> <<>>,
         call |-> <<InviteArgs(r, e)>>]

\* The handler up to its only await: what it read, what it answered, what
\* it called.
HandlerSync(r, e) ==
    IF ~MethodAllowed(r) THEN
        [examined |-> <<"method">>,
         out |-> <<Response(405, [error |-> "Method not allowed"])>>,
         call |-> <<>>]
    ELSE IF ~SecretOk(r, e) THEN
        [examined |-> <<"method", "secret">>,
         out |-> <<Response(401, [error |-> "Unauthorized"])>>,
         call |-> <<>>]
    ELSE IF ~Configured(e) THEN
        [examined |-> <<"method", "secret", "config">>,
         out |-> <<Response(500, [error |-> "Server misconfigured"])>>,
         call |-> <<>>]
    ELSE IF ~HasEmail(r) THEN
        [examined |-> <<"method", "secret", "config", "body">>,
         out |-> <<Response(400, [error |-> "Missing email in webhook payload"])>>,
         call |-> <<>>]
    ELSE
        [examined |-> <<"method", "secret", "config", "body">>,
         out |-> <<>>,
         call |-> <<InviteArgs(r, e)>>]

HandlerResumeMut(o) ==
    IF o.error.isError THEN
        Response(200, [message |-> "User already exists, skipping invite"])
    ELSE
        Response(200, [message |-> "User invited successfully", userId |-> o.userId])

\* The handler after the await: the response for an invite outcome.
HandlerResume(o) ==
    IF o.error.isError THEN
        IF IsAlreadyExists(o.error) THEN
            Response(200, [message |-> "User already exists, skipping invite"])
        ELSE
            Response(500, [error |-> "Failed to invite user"])
    ELSE
        Response(200, [message |-> "User invited successfully", userId |-> o.userId])

WhInit ==
    /\ env \in Envs
    /\ req = NoReq
    /\ whPc = "idle"
    /\ examined = <<>>
    /\ inviteCalls = <<>>
    /\ inviteResult = <<>>
    /\ responses = <<>>

\* A request arrives and the handler runs up to a response or to the await.
Receive(r) ==
    /\ whPc \in {"idle", "done"}
    /\ LET h == HandlerSync(r, env) IN
        /\ req' = r
        /\ examined' = h.examined
        /\ responses' = h.out
        /\ inviteCalls' = h.call
        /\ inviteResult' = <<>>
        /\ whPc' = IF h.call = <<>> THEN "done" ELSE "awaitInvite"
    /\ UNCHANGED env
    /\ UNCHANGED <<authVars, exVars, pgVars, lsVars>>

\* The invite call returns and the handler answers.
InviteReturns(o) ==
    /\ whPc = "awaitInvite"
    /\ inviteResult' = <<o>>
    /\ responses' = Append(responses, HandlerResume(o))
    /\ whPc' = "done"
    /\ UNCHANGED <<env, req, examined, inviteCalls>>
    /\ UNCHANGED <<authVars, exVars, pgVars, lsVars>>

WhNext ==
    \/ \E r \in Requests : Receive(r)
    \/ \E o \in InviteOutcomes : InviteReturns(o)

(***************************************************************************)
(* Auth gate, provider-backed variant                                      *)
(***************************************************************************)

\* Calls of one kind that may be in flight at once
MaxPending == 2

SessionEmails == {Undef, "a@b.com"}
SessionNames == {Undef, "Ann"}

\* Session | null
NoSession == [present |-> FALSE, email |-> Undef, metaName |-> Undef]
Sessions == {NoSession}
            \cup [present : {TRUE}, email : SessionEmails, metaName : SessionNames]

\* User | null
NoUser == [email |-> Undef, name |-> Undef]

\* a ?? b
Coalesce(a, b) == IF a # Undef THEN a ELSE b

sessionToUser(s) ==
    IF ~s.present THEN NoUser
    ELSE [email |-> Coalesce(s.email, ""),
          name |-> Coalesce(s.metaName, Coalesce(s.email, ""))]

AuthEvents == {"INITIAL_SESSION", "SIGNED_IN", "SIGNED_OUT", "PASSWORD_RECOVERY",
               "TOKEN_REFRESHED", "USER_UPDATED"}

\* Sessions the provider passes with an event
EventSessions(ev) ==
    IF ev = "SIGNED_OUT" THEN {NoSession}
    ELSE IF ev \in {"INITIAL_SESSION", "PASSWORD_RECOVERY"} THEN Sessions
    ELSE Sessions \ {NoSession}

\* What AppContent renders
GateMut(l, rec, u) ==
    IF l THEN "spinner"
    ELSE IF u # NoUser THEN "explorer"
    ELSE "auth"
Gate(l, rec, u) ==
    IF l THEN "spinner"
    ELSE IF rec THEN "auth"
    ELSE IF u # NoUser THEN "explorer"
    ELSE "auth"

View == Gate(loading, isRecoveryMode, user)

\* AuthPage `mode` once rendering and effects have settled: initial state
\* "login" on mount, and the effect on [isRecoveryMode] switching to
\* "setPassword" on mount and on every change of isRecoveryMode to true.
SettledMode(m, recBefore, view, rec) ==
    IF view # "auth" THEN "unmounted"
    ELSE IF m = "unmounted" THEN (IF rec THEN "setPassword" ELSE "login")
    ELSE IF rec /\ ~recBefore THEN "setPassword"
    ELSE m

\* AuthPage `submitting`: lost on unmount, false on mount
SettledSubmitting(m, s, view) ==
    IF view # "auth" \/ m = "unmounted" THEN FALSE ELSE s

\* Re-render after AuthProvider state changed to (l, rec, u); m and s are the
\* AuthPage state the handler itself left behind.
Render(m, s, l, rec, u) ==
    /\ authMode' = SettledMode(m, isRecoveryMode, Gate(l, rec, u), rec)
    /\ submitting' = SettledSubmitting(authMode, s, Gate(l, rec, u))

AuthInit ==
    /\ user = NoUser
    /\ loading = TRUE
    /\ isRecoveryMode = FALSE
    /\ authMode = "unmounted"
    /\ submitting = FALSE
    /\ sessionLookup = "pending"
    /\ logoutPending = 0
    /\ updatePending = 0
    /\ credPending = 0
    /\ lastOp = "mount"
    /\ recoveryBefore = FALSE
    /\ notified = <<>>

\* supabase.auth.getSession().then(...)
GetSessionResolves(s) ==
    /\ sessionLookup = "pending"
    /\ sessionLookup' = "done"
    /\ user' = sessionToUser(s)
    /\ loading' = FALSE
    /\ Render(authMode, submitting, FALSE, isRecoveryMode, sessionToUser(s))
    /\ lastOp' = "getSession"
    /\ recoveryBefore' = isRecoveryMode
    /\ UNCHANGED notified
    /\ UNCHANGED <<whVars, exVars, pgVars, lsVars>>
    /\ UNCHANGED <<isRecoveryMode, logoutPending, updatePending, credPending>>

\* isRecoveryMode after the onAuthStateChange callback
RecoveryAfterNoSignOut(ev, rec) ==
    IF ev = "PASSWORD_RECOVERY" THEN TRUE ELSE rec
RecoveryAfterMut(ev, rec) ==
    IF ev = "SIGNED_OUT" THEN FALSE ELSE rec
RecoveryAfter(ev, rec) ==
    IF ev = "SIGNED_OUT" THEN FALSE
    ELSE IF ev = "PASSWORD_RECOVERY" THEN TRUE
    ELSE rec

\* the onAuthStateChange callback
AuthStateChange(ev, s) ==
    /\ user' = sessionToUser(s)
    /\ isRecoveryMode' = RecoveryAfter(ev, isRecoveryMode)
    /\ Render(authMode, submitting, loading, RecoveryAfter(ev, isRecoveryMode),
              sessionToUser(s))
    /\ lastOp' = ev
    /\ recoveryBefore' = isRecoveryMode
    /\ notified' = <<sessionToUser(s)>>
    /\ UNCHANGED <<whVars, exVars, pgVars, lsVars>>
    /\ UNCHANGED <<loading, sessionLookup, logoutPending, updatePending, credPending>>

\* the sign-out button of the explorer: logout() up to its await
LogoutClick ==
    /\ View = "explorer"
    /\ logoutPending < MaxPending
    /\ logoutPending' = logoutPending + 1
    /\ lastOp' = "logoutClick"
    /\ recoveryBefore' = isRecoveryMode
    /\ UNCHANGED notified
    /\ UNCHANGED <<whVars, exVars, pgVars, lsVars>>
    /\ UNCHANGED <<user, loading, isRecoveryMode, authMode, submitting,
                   sessionLookup, updatePending, credPending>>

\* logout() after supabase.auth.signOut() settled
LogoutCompletes ==
    /\ logoutPending > 0
    /\ logoutPending' = logoutPending - 1
    /\ user' = NoUser
    /\ isRecoveryMode' = FALSE
    /\ Render(authMode, submitting, loading, FALSE, NoUser)
    /\ lastOp' = "logout"
    /\ recoveryBefore' = isRecoveryMode
    /\ UNCHANGED notified
    /\ UNCHANGED <<whVars, exVars, pgVars, lsVars>>
    /\ UNCHANGED <<loading, sessionLookup, updatePending, credPending>>

\* AuthPage.switchMode through the two links of the login and forgot forms
SwitchMode(m) ==
    /\ \/ authMode = "login" /\ m = "forgot"
       \/ authMode = "forgot" /\ m = "login"
    /\ authMode' = m
    /\ lastOp' = "switchMode"
    /\ recoveryBefore' = isRecoveryMode
    /\ UNCHANGED notified
    /\ UNCHANGED <<whVars, exVars, pgVars, lsVars>>
    /\ UNCHANGED <<user, loading, isRecoveryMode, submitting, sessionLookup,
                   logoutPending, updatePending, credPending>>

\* handleLogin / handleForgotPassword up to the await
CredSubmit ==
    /\ authMode \in {"login", "forgot"}
    /\ ~submitting
    /\ credPending < MaxPending
    /\ submitting' = TRUE
    /\ credPending' = credPending + 1
    /\ lastOp' = "credSubmit"
    /\ recoveryBefore' = isRecoveryMode
    /\ UNCHANGED notified
    /\ UNCHANGED <<whVars, exVars, pgVars, lsVars>>
    /\ UNCHANGED <<user, loading, isRecoveryMode, authMode, sessionLookup,
                   logoutPending, updatePending>>

\* handleLogin / handleForgotPassword after the await
CredReturns ==
    /\ credPending > 0
    /\ credPending' = credPending - 1
    /\ submitting' = FALSE
    /\ lastOp' = "credReturn"
    /\ recoveryBefore' = isRecoveryMode
    /\ UNCHANGED notified
    /\ UNCHANGED <<whVars, exVars, pgVars, lsVars>>
    /\ UNCHANGED <<user, loading, isRecoveryMode, authMode, sessionLookup,
                   logoutPending, updatePending>>

\* handleSetPassword with a valid password, up to the await
SetPasswordSubmit ==
    /\ authMode = "setPassword"
    /\ ~submitting
    /\ updatePending < MaxPending
    /\ submitting' = TRUE
    /\ updatePending' = updatePending + 1
    /\ lastOp' = "setPasswordSubmit"
    /\ recoveryBefore' = isRecoveryMode
    /\ UNCHANGED notified
    /\ UNCHANGED <<whVars, exVars, pgVars, lsVars>>
    /\ UNCHANGED <<user, loading, isRecoveryMode, authMode, sessionLookup,
                   logoutPending, credPending>>

UpdatePasswordReturnsMut(ok) ==
    /\ updatePending > 0
    /\ updatePending' = updatePending - 1
    /\ isRecoveryMode' = FALSE
    /\ Render(authMode, FALSE, loading, FALSE, user)
    /\ lastOp' = IF ok THEN "updatePasswordOk" ELSE "updatePasswordError"
    /\ recoveryBefore' = isRecoveryMode
    /\ UNCHANGED notified
    /\ UNCHANGED <<whVars, exVars, pgVars, lsVars>>
    /\ UNCHANGED <<user, loading, sessionLookup, logoutPending, credPending>>

\* updatePassword after supabase.auth.updateUser() settled, then the rest of
\* handleSetPassword
UpdatePasswordReturns(ok) ==
    /\ updatePending > 0
    /\ updatePending' = updatePending - 1
    /\ isRecoveryMode' = IF ok THEN FALSE ELSE isRecoveryMode
    /\ Render(authMode, FALSE, loading, IF ok THEN FALSE ELSE isRecoveryMode, user)
    /\ lastOp' = IF ok THEN "updatePasswordOk" ELSE "updatePasswordError"
    /\ recoveryBefore' = isRecoveryMode
    /\ UNCHANGED notified
    /\ UNCHANGED <<whVars, exVars, pgVars, lsVars>>
    /\ UNCHANGED <<user, loading, sessionLookup, logoutPending, credPending>>

AuthNext ==
    \/ \E s \in Sessions : GetSessionResolves(s)
    \/ \E ev \in AuthEvents : \E s \in EventSessions(ev) : AuthStateChange(ev, s)
    \/ LogoutClick
    \/ LogoutCompletes
    \/ \E m \in {"login", "forgot"} : SwitchMode(m)
    \/ CredSubmit
    \/ CredReturns
    \/ SetPasswordSubmit
    \/ \E ok \in BOOLEAN : UpdatePasswordReturns(ok)

(***************************************************************************)
(* Text: a JavaScript string of the explorer is a sequence of              *)
(* one-character strings; a character outside ASCII is written by its code *)
(* point, "U+00E9" for e with acute accent                                 *)
(***************************************************************************)

LowerAlpha == <<"a","b","c","d","e","f","g","h","i","j","k","l","m","n","o","p","q","r","s","t","u","v","w","x","y","z","U+00E9","U+00E0","U+00E8","U+00F9","U+00E2","U+00EA","U+00EE","U+00F4","U+00FB","U+00E7">>
UpperAlpha == <<"A","B","C","D","E","F","G","H","I","J","K","L","M","N","O","P","Q","R","S","T","U","V","W","X","Y","Z","U+00C9","U+00C0","U+00C8","U+00D9","U+00C2","U+00CA","U+00CE","U+00D4","U+00DB","U+00C7">>
Digits == <<"0","1","2","3","4","5","6","7","8","9">>

Range(f) == {f[i] : i \in DOMAIN f}
\* \s, \d and \w of the regular expressions
IsSpace(ch) == ch = " "
IsDigit(ch) == ch \in Range(Digits)

IndexIn(f, ch) == CHOOSE i \in DOMAIN f : f[i] = ch
\* String.prototype.toLowerCase / toUpperCase, one character
LowerCh(ch) == IF ch \in Range(UpperAlpha) THEN LowerAlpha[IndexIn(UpperAlpha, ch)] ELSE ch
UpperCh(ch) == IF ch \in Range(LowerAlpha) THEN UpperAlpha[IndexIn(LowerAlpha, ch)] ELSE ch
toLowerCase(s) == [i \in 1..Len(s) |-> LowerCh(s[i])]
toUpperCase(s) == [i \in 1..Len(s) |-> UpperCh(s[i])]

\* String.prototype.trim
trim(s) ==
    LET keep == {i \in 1..Len(s) : ~IsSpace(s[i])}
    IN IF keep = {} THEN <<>>
       ELSE LET a == CHOOSE i \in keep : \A j \in keep : i <= j
                b == CHOOSE i \in keep : \A j \in keep : i >= j
            IN SubSeq(s, a, b)

\* String.prototype.split with a one-character separator
RECURSIVE split(_, _)
split(s, sep) ==
    LET hits == {i \in 1..Len(s) : s[i] = sep}
    IN IF hits = {} THEN <<s>>
       ELSE LET k == CHOOSE i \in hits : \A j \in hits : i <= j
            IN <<SubSeq(s, 1, k - 1)>> \o split(SubSeq(s, k + 1, Len(s)), sep)

\* Array.prototype.join with a one-character separator
RECURSIVE join(_, _)
join(parts, sep) ==
    IF Len(parts) = 0 THEN <<>>
    ELSE IF Len(parts) = 1 THEN parts[1]
    ELSE parts[1] \o <<sep>> \o join(Tail(parts), sep)

(***************************************************************************)
(* Explorer constants                                                      *)
(***************************************************************************)

TextAll == <<"A","L","L">>
NoText == <<>>
\* a field that is missing (undefined) in a row
NoField == <<"<undefined>">>

PROVINCES == <<<<"B","C">>, <<"A","B">>, <<"S","K">>, <<"M","B">>, <<"O","N">>, <<"Q","C">>, <<"N","B">>, <<"N","S">>, <<"P","E">>, <<"N","L">>, <<"Y","T">>, <<"N","T">>, <<"N","U">>>>

\* PROVINCE_NAMES, as pairs <<code, full name>>
PROVINCE_NAMES == {
    <<<<"B","C">>, <<"B","r","i","t","i","s","h"," ","C","o","l","u","m","b","i","a">>>>,
    <<<<"A","B">>, <<"A","l","b","e","r","t","a">>>>,
    <<<<"S","K">>, <<"S","a","s","k","a","t","c","h","e","w","a","n">>>>,
    <<<<"M","B">>, <<"M","a","n","i","t","o","b","a">>>>,
    <<<<"O","N">>, <<"O","n","t","a","r","i","o">>>>,
    <<<<"Q","C">>, <<"Q","u","e","b","e","c">>>>,
    <<<<"N","B">>, <<"N","e","w"," ","B","r","u","n","s","w","i","c","k">>>>,
    <<<<"N","S">>, <<"N","o","v","a"," ","S","c","o","t","i","a">>>>,
    <<<<"P","E">>, <<"P","r","i","n","c","e"," ","E","d","w","a","r","d"," ","I","s","l","a","n","d">>>>,
    <<<<"N","L">>, <<"N","e","w","f","o","u","n","d","l","a","n","d"," ","a","n","d"," ","L","a","b","r","a","d","o","r">>>>,
    <<<<"Y","T">>, <<"Y","u","k","o","n">>>>,
    <<<<"N","T">>, <<"N","o","r","t","h","w","e","s","t"," ","T","e","r","r","i","t","o","r","i","e","s">>>>,
    <<<<"N","U">>, <<"N","u","n","a","v","u","t">>>>}

\* nameToAbbr of the load effect, as pairs <<upper-case name, code>>
nameToAbbr == {
    <<<<"B","R","I","T","I","S","H"," ","C","O","L","U","M","B","I","A">>, <<"B","C">>>>,
    <<<<"A","L","B","E","R","T","A">>, <<"A","B">>>>,
    <<<<"S","A","S","K","A","T","C","H","E","W","A","N">>, <<"S","K">>>>,
    <<<<"M","A","N","I","T","O","B","A">>, <<"M","B">>>>,
    <<<<"O","N","T","A","R","I","O">>, <<"O","N">>>>,
    <<<<"Q","U","E","B","E","C">>, <<"Q","C">>>>,
    <<<<"N","E","W"," ","B","R","U","N","S","W","I","C","K">>, <<"N","B">>>>,
    <<<<"N","O","V","A"," ","S","C","O","T","I","A">>, <<"N","S">>>>,
    <<<<"P","R","I","N","C","E"," ","E","D","W","A","R","D"," ","I","S","L","A","N","D">>, <<"P","E">>>>,
    <<<<"N","E","W","F","O","U","N","D","L","A","N","D"," ","A","N","D"," ","L","A","B","R","A","D","O","R">>, <<"N","L">>>>,
    <<<<"Y","U","K","O","N">>, <<"Y","T">>>>,
    <<<<"N","O","R","T","H","W","E","S","T"," ","T","E","R","R","I","T","O","R","I","E","S">>, <<"N","T">>>>,
    <<<<"N","U","N","A","V","U","T">>, <<"N","U">>>>}

TOP_CITIES == <<<<"V","a","n","c","o","u","v","e","r">>,
    <<"T","o","r","o","n","t","o">>,
    <<"S","u","r","r","e","y">>,
    <<"M","i","s","s","i","s","s","a","u","g","a">>,
    <<"B","r","a","m","p","t","o","n">>,
    <<"C","a","l","g","a","r","y">>,
    <<"E","d","m","o","n","t","o","n">>,
    <<"O","t","t","a","w","a">>,
    <<"W","i","n","n","i","p","e","g">>,
    <<"M","o","n","t","r","U+00E9","a","l">>>>

ROWS_PER_PAGE_OPTIONS == {50, 100, 250, 500}

\* The two explorer files: "provider" is the explorer with the sign-out
\* button, "local" the one with the NOC search and the CSV export
Variants == {"provider", "local"}

\* CITY_CORRECTIONS, as pairs <<key, value>>; the accented values of the
\* local file are stored in it as the two characters shown
CITY_CORRECTIONS(v) ==
    {<<<<"A","b","b","o","t","t","s","f","o","r","d">>, <<"A","b","b","o","t","s","f","o","r","d">>>>,
     <<<<"A","b","o","r","t","s","f","o","r","d">>, <<"A","b","b","o","t","s","f","o","r","d">>>>,
     <<<<"V","a","n","c","o","u","v","e">>, <<"V","a","n","c","o","u","v","e","r">>>>,
     <<<<"T","o","r","o","n","t">>, <<"T","o","r","o","n","t","o">>>>,
     <<<<"M","o","n","t","r","e","a","l">>, IF v = "provider" THEN <<"M","o","n","t","r","U+00E9","a","l">> ELSE <<"M","o","n","t","r","U+221A","U+00A9","a","l">>>>,
     <<<<"Q","u","e","b","e","c">>, IF v = "provider" THEN <<"Q","u","U+00E9","b","e","c">> ELSE <<"Q","u","U+221A","U+00A9","b","e","c">>>>}

(***************************************************************************)
(* isValidCityName and normalizeCityName                                   *)
(***************************************************************************)

\* isValidCityName; v selects the character class of the file
isValidCityName(v, name) ==
    LET
        AsciiLetters == {LowerAlpha[i] : i \in 1..26} \cup {UpperAlpha[i] : i \in 1..26}
        AsciiUpper == {UpperAlpha[i] : i \in 1..26}
        IsWordChar(ch) == ch \in AsciiLetters \/ IsDigit(ch) \/ ch = "_"
        \* Words of the first two banned patterns. A match of \b(w)\b is a maximal
        \* run of word characters equal to w ignoring case. The alternatives with a
        \* digit cannot match after the digit test, and those with a dot or a space
        \* before "box" either contain the word "box" or a character the character
        \* test rejects, so that the result of the function is the same.
        BannedAddressWords ==
            {<<"s","t","r","e","e","t">>, <<"s","t">>, <<"a","v","e","n","u","e">>, <<"a","v","e">>,
             <<"r","o","a","d">>, <<"r","d">>, <<"d","r","i","v","e">>, <<"d","r">>,
             <<"b","o","u","l","e","v","a","r","d">>, <<"b","l","v","d">>, <<"l","a","n","e">>, <<"l","n">>,
             <<"c","o","u","r","t">>, <<"c","t">>, <<"w","a","y">>, <<"w","y">>,
             <<"t","e","r","r","a","c","e">>, <<"t","e","r">>, <<"p","l","a","c","e">>, <<"p","l">>}
        BannedUnitWords ==
            {<<"u","n","i","t">>, <<"s","u","i","t","e">>, <<"a","p","t">>, <<"a","p","a","r","t","m","e","n","t">>,
             <<"f","l","o","o","r">>, <<"f","l">>, <<"b","u","i","l","d","i","n","g">>, <<"b","l","d","g">>,
             <<"b","o","x">>, <<"p","o","b","o","x">>, <<"r","r">>}
        DirectionWords ==
            {<<"n","o","r","t","h">>, <<"s","o","u","t","h">>, <<"e","a","s","t">>, <<"w","e","s","t">>,
             <<"n">>, <<"s">>, <<"e">>, <<"w">>,
             <<"n","e">>, <<"n","w">>, <<"s","e">>, <<"s","w">>}
        DirectionTails ==
            {<<"o","f">>, <<"a","t">>, <<"a","n","d">>}
        \* maximal runs of word characters of s, as pairs <<first, last>>
        WordRuns(s) ==
            {<<a, b>> \in (1..Len(s)) \X (1..Len(s)) :
                /\ a <= b
                /\ \A i \in a..b : IsWordChar(s[i])
                /\ (a = 1 \/ ~IsWordChar(s[a - 1]))
                /\ (b = Len(s) \/ ~IsWordChar(s[b + 1]))}
        HasWordIn(s, words) ==
            \E r \in WordRuns(s) : toLowerCase(SubSeq(s, r[1], r[2])) \in words
        \* /\b(north|...|sw)\s+(of|at|and)\b/i
        DirectionPattern(s) ==
            \E r \in WordRuns(s) : \E q \in WordRuns(s) :
                /\ r[2] + 1 < q[1]
                /\ \A i \in (r[2] + 1)..(q[1] - 1) : IsSpace(s[i])
                /\ toLowerCase(SubSeq(s, r[1], r[2])) \in DirectionWords
                /\ toLowerCase(SubSeq(s, q[1], q[2])) \in DirectionTails
        \* /^[A-Z]$/, /^[A-Z]\s+[A-Z]$/ and /^[A-Z]\.?\s*[A-Z]\.?$/
        InitialsPattern(s) ==
            \/ Len(s) = 1 /\ s[1] \in AsciiUpper
            \/ /\ Len(s) >= 3
               /\ s[1] \in AsciiUpper /\ s[Len(s)] \in AsciiUpper
               /\ \A i \in 2..(Len(s) - 1) : IsSpace(s[i])
            \/ \E d1 \in {0, 1} : \E d2 \in {0, 1} :
                /\ Len(s) >= 2 + d1 + d2
                /\ s[1] \in AsciiUpper
                /\ d1 = 1 => s[2] = "."
                /\ s[Len(s) - d2] \in AsciiUpper
                /\ d2 = 1 => s[Len(s)] = "."
                /\ \A i \in (2 + d1)..(Len(s) - d2 - 1) : IsSpace(s[i])
        \* the character class of the last test
        AccentChars ==
            IF v = "provider"
            THEN {"U+00E9", "U+00E0", "U+00E8", "U+00F9", "U+00E2", "U+00EA", "U+00EE", "U+00F4", "U+00FB", "U+00E7", "U+00C9", "U+00C0", "U+00C8", "U+00D9", "U+00C2", "U+00CA", "U+00CE", "U+00D4", "U+00DB", "U+00C7"}
            ELSE {"U+00A2", "U+00A5", "U+00A9", "U+00AA", "U+00AE", "U+00C4", "U+00C6", "U+00C7", "U+00DF", "U+00E0", "U+00E1", "U+00E2", "U+00E4", "U+00E9", "U+00EE", "U+00F4", "U+00F5", "U+03C0", "U+2020", "U+2122", "U+221A"}
        AllowedCityChars == AsciiLetters \cup {" ", "-", "'"} \cup AccentChars
        SentinelUnknown == <<"U","n","k","n","o","w","n">>
        SentinelNotSpecified == <<"N","o","t"," ","S","p","e","c","i","f","i","e","d">>
        SentinelNA == <<"N","/","A">>
        c == trim(name)
    IN
    /\ Len(name) > 0
    /\ Len(c) >= 3 /\ Len(c) <= 40
    /\ ~\E i \in 1..Len(c) : IsDigit(c[i])
    /\ ~HasWordIn(c, BannedAddressWords)
    /\ ~HasWordIn(c, BannedUnitWords)
    /\ ~DirectionPattern(c)
    /\ ~InitialsPattern(c)
    /\ \A i \in 1..Len(c) : c[i] \in AllowedCityChars
    /\ ~(Includes(c, SentinelUnknown) \/ Includes(c, SentinelNotSpecified)
         \/ Includes(c, SentinelNA))

normalizeCityName(v, name) ==
    LET \* word.charAt(0).toUpperCase() + word.slice(1)
        Capitalize(w) == IF Len(w) = 0 THEN w ELSE <<UpperCh(w[1])>> \o Tail(w)
        \* the callback of .map
        TitleWord(word) ==
            IF word = <<"s","t">> THEN <<"S","t">>
            ELSE IF word = <<"s","t","e">> THEN <<"S","t","e">>
            ELSE IF word = <<"m","t">> THEN <<"M","t">>
            ELSE IF word = <<"f","t">> THEN <<"F","t">>
            ELSE LET parts == split(word, "'") IN
                 IF Len(parts) > 1
                 THEN join([i \in 1..Len(parts) |->
                              IF i = 1 THEN Capitalize(parts[i]) ELSE parts[i]], "'")
                 ELSE Capitalize(word)
        t == trim(name)
        \* if (CITY_CORRECTIONS[c]) c = CITY_CORRECTIONS[c]
        c == IF \E p \in CITY_CORRECTIONS(v) : p[1] = t
             THEN (CHOOSE p \in CITY_CORRECTIONS(v) : p[1] = t)[2]
             ELSE t
        words == split(toLowerCase(c), " ")
    IN join([i \in 1..Len(words) |-> TitleWord(words[i])], " ")

(***************************************************************************)
(* Dataset loader                                                          *)
(***************************************************************************)

Languages == {"en", "fr", "es", "pa", "de"}

\* getNotDisclosedText of the local file
NotDisclosedText(lang) ==
    IF lang = "fr" THEN <<"N","o","n"," ","d","i","v","u","l","g","u","U+221A","U+00A9">>
    ELSE IF lang = "es" THEN <<"N","o"," ","d","i","v","u","l","g","a","d","o">>
    ELSE IF lang = "pa" THEN <<"U+2021","U+00AE","U+2122","U+2021","U+00A9","U+00E7","U+2021","U+00AE","U+221E","U+2021","U+00AE","U+00F3","U+2021","U+00AE","U+00FC"," ","U+2021","U+00AE","U+00AE","U+2021","U+00AE","U+03C0","U+2021","U+00A9","U+00C4","U+2021","U+00AE","U+00C7"," ","U+2021","U+00AE","U+00EF","U+2021","U+00A9","U+00C4","U+2021","U+00AE","U+00A7","U+2021","U+00AE","U+00E6"," ","U+2021","U+00AE","U+00F3","U+2021","U+00AE","U+00F8","U+2021","U+00AE","U+00DC">>
    ELSE IF lang = "de" THEN <<"N","i","c","h","t"," ","o","f","f","e","n","g","e","l","e","g","t">>
    ELSE <<"N","o","t"," ","D","i","s","c","l","o","s","e","d">>

BaseRow ==
    [Employer |-> <<"A","c","m","e"," ","C","o","r","p">>,
     City |-> <<"T","o","r","o","n","t","o">>,
     Province |-> <<"O","N">>,
     Stream |-> <<"H","i","g","h"," ","W","a","g","e">>,
     NocCode |-> <<"2","1","7","3">>,
     NocTitle |-> <<"S","o","f","t","w","a","r","e"," ","e","n","g","i","n","e","e","r","s">>,
     LMIAs |-> [k |-> "num", n |-> 3]]

\* Raw rows of the load check: the base row with one field varied
LoadRows ==
    LET
        RawCounts == {[k |-> "undef", n |-> 0], [k |-> "num", n |-> 0], [k |-> "num", n |-> 1], [k |-> "num", n |-> 3], [k |-> "str", n |-> 2], [k |-> "nan", n |-> 0]}
        RawCities == {
            <<"T","o","r","o","n","t","o">>,
            <<"t","o","r","o","n","t","o">>,
            <<"t","o","r","o","n","t">>,
            <<"T","o","r","o","n","t">>,
            <<"T","O","R","O","N","T","O">>,
            <<" ","S","u","r","r","e","y"," ">>,
            <<"V","a","n","c","o","u","v","e">>,
            <<"M","o","n","t","r","e","a","l">>,
            <<"Q","u","e","b","e","c">>,
            <<"u","n","k","n","o","w","n">>,
            <<"U","n","k","n","o","w","n">>,
            <<"n","o","t"," ","s","p","e","c","i","f","i","e","d">>,
            <<"a"," ","b">>,
            <<"A"," ","B">>,
            <<"s","t"," ","j","o","h","n">>,
            <<"S","a","u","l","t"," ","S","t","e"," ","M","a","r","i","e">>,
            <<"m","t"," ","p","e","a","r","l">>,
            <<"o","'","b","r","i","e","n">>,
            <<"l","'","a","n","g","e","-","g","a","r","d","i","e","n">>,
            <<"1","2"," ","M","a","i","n">>,
            <<"M","a","i","n"," ","S","t","r","e","e","t">>,
            <<"n","o","r","t","h"," ","o","f"," ","t","o","w","n">>,
            <<"N","o","r","t","h"," ","B","a","y">>,
            <<"a","b">>,
            <<"p","o","b","o","x">>,
            <<"S","t","."," ","J","o","h","n","'","s">>,
            <<"f","t"," "," ","n","e","l","s","o","n">>,
            <<>>,
            NoField,
            <<"m","o","n","t","r","U+00E9","a","l">>}
        RawProvinces == {
            <<"O","N","T","A","R","I","O">>,
            <<"O","n","t","a","r","i","o">>,
            <<" ","o","n","t","a","r","i","o"," ">>,
            <<"O","N">>,
            <<"o","n">>,
            <<" ","q","c"," ">>,
            <<"Q","u","U+00E9","b","e","c">>,
            <<"X","X">>,
            <<"O","n","t">>,
            <<>>,
            NoField,
            <<"B","r","i","t","i","s","h"," ","C","o","l","u","m","b","i","a">>,
            <<"A","l","b","e","r","t","a">>,
            <<"S","a","s","k","a","t","c","h","e","w","a","n">>,
            <<"M","a","n","i","t","o","b","a">>,
            <<"Q","u","e","b","e","c">>,
            <<"N","e","w"," ","B","r","u","n","s","w","i","c","k">>,
            <<"N","o","v","a"," ","S","c","o","t","i","a">>,
            <<"P","r","i","n","c","e"," ","E","d","w","a","r","d"," ","I","s","l","a","n","d">>,
            <<"N","e","w","f","o","u","n","d","l","a","n","d"," ","a","n","d"," ","L","a","b","r","a","d","o","r">>,
            <<"Y","u","k","o","n">>,
            <<"N","o","r","t","h","w","e","s","t"," ","T","e","r","r","i","t","o","r","i","e","s">>,
            <<"N","u","n","a","v","u","t">>,
            <<"B","C">>,
            <<"A","B">>,
            <<"S","K">>,
            <<"M","B">>,
            <<"Q","C">>,
            <<"N","B">>,
            <<"N","S">>,
            <<"P","E">>,
            <<"N","L">>,
            <<"Y","T">>,
            <<"N","T">>,
            <<"N","U">>}
    IN
    {[BaseRow EXCEPT !.City = c] : c \in RawCities}
    \cup {[BaseRow EXCEPT !.Province = p] : p \in RawProvinces}
    \cup {[BaseRow EXCEPT !.LMIAs = n] : n \in RawCounts}
    \cup {[BaseRow EXCEPT !.Employer = NoField, !.Stream = NoField,
                          !.NocCode = NoField, !.NocTitle = NoField]}

\* Longest raw array of the load check
MaxLoadRows == 2
\* Rows combined into longer arrays
CoreRows ==
    {BaseRow,
     [BaseRow EXCEPT !.City = <<"u","n","k","n","o","w","n">>],
     [BaseRow EXCEPT !.City = <<"t","o","r","o","n","t">>],
     [BaseRow EXCEPT !.City = <<"1","2"," ","M","a","i","n">>],
     [BaseRow EXCEPT !.Province = <<"O","n","t","a","r","i","o">>],
     [BaseRow EXCEPT !.Province = <<"X","X">>],
     [BaseRow EXCEPT !.LMIAs = [k |-> "nan", n |-> 0]]}
\* Bodies of the data file: every single row, and arrays of core rows
LoadInputs ==
    {<<r>> : r \in LoadRows} \cup UNION {[1..n -> CoreRows] : n \in 0..MaxLoadRows}

\* (x as string)?.trim() || ""
TrimOrEmpty(x) == IF x = NoField THEN NoText ELSE trim(x)

\* x || ""
OrEmpty(x) == IF x = NoField THEN NoText ELSE x

Num(n) == [k |-> "num", n |-> n]

\* Number(x) || 0
NumberOrZero(x) == IF x.k \in {"num", "str"} THEN x.n ELSE 0

\* Province: trim, upper-case, full name to code, codes outside PROVINCES
\* to ""
NormalizeProvinceMut(x) ==
    LET up == IF x = NoField THEN NoText ELSE toUpperCase(trim(x))
    IN IF up \in Range(PROVINCES) THEN up ELSE NoText
NormalizeProvince(x) ==
    LET up == IF x = NoField THEN NoText ELSE toUpperCase(trim(x))
        abbr == IF \E p \in nameToAbbr : p[1] = up
                THEN (CHOOSE p \in nameToAbbr : p[1] = up)[2]
                ELSE up
    IN IF abbr \in Range(PROVINCES) THEN abbr ELSE NoText

\* City: trim, then normalized if valid, "" otherwise
CleanCity(v, x) ==
    LET c == TrimOrEmpty(x)
    IN IF Len(c) > 0 /\ isValidCityName(v, c) THEN normalizeCityName(v, c) ELSE NoText

\* the callback of data.map
CleanRow(v, lang, row) ==
    IF v = "provider"
    THEN [Employer |-> TrimOrEmpty(row.Employer),
          City |-> CleanCity(v, row.City),
          Province |-> NormalizeProvince(row.Province),
          Stream |-> TrimOrEmpty(row.Stream),
          NocCode |-> NoField,
          NocTitle |-> NoField,
          LMIAs |-> Num(NumberOrZero(row.LMIAs))]
    ELSE [row EXCEPT
          !.City = CleanCity(v, row.City),
          !.Province = NormalizeProvince(row.Province),
          !.Employer = IF Len(TrimOrEmpty(row.Employer)) > 0
                       THEN TrimOrEmpty(row.Employer)
                       ELSE NotDisclosedText(lang)]

\* the callback of .filter
KeepRow(r) == Len(r.City) > 0 /\ Len(r.Province) > 0

MapRows(v, lang, data) == [i \in 1..Len(data) |-> CleanRow(v, lang, data[i])]
CleanedData(v, lang, data) == SelectSeq(MapRows(v, lang, data), KeepRow)

(***************************************************************************)
(* Derived views of the explorer                                           *)
(***************************************************************************)

RECURSIVE SeqLess(_, _)
SeqLess(a, b) ==
    IF Len(b) = 0 THEN FALSE
    ELSE IF Len(a) = 0 THEN TRUE
    ELSE IF a[1] # b[1] THEN a[1] < b[1]
    ELSE SeqLess(Tail(a), Tail(b))

\* a.localeCompare(b) < 0. Weights of localeCompare: base letters first, then
\* accents, then case (lower case first); blank and punctuation sort before
\* digits and letters
LocaleLess(a, b) ==
    LET
        AccentBase == <<"e","a","e","u","a","e","i","o","u","c">>
        BaseLetter(ch) ==
            LET l == LowerCh(ch)
            IN IF IndexIn(LowerAlpha, l) > 26 THEN AccentBase[IndexIn(LowerAlpha, l) - 26] ELSE l
        IsLetter(ch) == ch \in Range(LowerAlpha) \/ ch \in Range(UpperAlpha)
        PrimaryWeight(ch) ==
            IF IsLetter(ch) THEN 20 + IndexIn(LowerAlpha, BaseLetter(ch))
            ELSE IF IsDigit(ch) THEN 9 + IndexIn(Digits, ch)
            ELSE IF ch = " " THEN 1
            ELSE IF ch = "-" THEN 2
            ELSE IF ch = "'" THEN 3
            ELSE 4
        SecondaryWeight(ch) == IF IsLetter(ch) /\ LowerCh(ch) # BaseLetter(ch) THEN 1 ELSE 0
        TertiaryWeight(ch) == IF ch \in Range(UpperAlpha) THEN 1 ELSE 0
        p(s) == [i \in 1..Len(s) |-> PrimaryWeight(s[i])]
        q(s) == [i \in 1..Len(s) |-> SecondaryWeight(s[i])]
        t(s) == [i \in 1..Len(s) |-> TertiaryWeight(s[i])]
    IN IF p(a) # p(b) THEN SeqLess(p(a), p(b))
       ELSE IF q(a) # q(b) THEN SeqLess(q(a), q(b))
       ELSE SeqLess(t(a), t(b))

\* items.sort((a, b) => a.localeCompare(b))
RECURSIVE SortedTexts(_)
SortedTexts(S) ==
    IF S = {} THEN <<>>
    ELSE LET m == CHOOSE x \in S : \A y \in S \ {x} : ~LocaleLess(y, x)
         IN <<m>> \o SortedTexts(S \ {m})

\* .slice(0, 200) of the city lists
CityCap == 200

\* Array.prototype.slice(a, b) with 0 <= a
Slice(s, a, b) ==
    IF a >= Len(s) \/ b <= a THEN <<>>
    ELSE SubSeq(s, a + 1, IF b < Len(s) THEN b ELSE Len(s))

\* citiesByProvince[p]
CitiesOf(v, rs, p) ==
    LET listed == {normalizeCityName(v, rs[i].City) : i \in
                     {j \in 1..Len(rs) :
                        /\ rs[j].Province = p
                        /\ Len(rs[j].City) > 0
                        /\ p \in Range(PROVINCES)
                        /\ isValidCityName(v, normalizeCityName(v, rs[j].City))}}
    IN Slice(SortedTexts(listed), 0, CityCap)

\* the value of the useMemo on [rows]
CitiesByProvinceOf(v, rs) == [p \in Range(PROVINCES) |-> CitiesOf(v, rs, p)]

\* streamOptions: the value of the useMemo on [rows]
StreamOptionsOf(rs) ==
    SortedTexts({rs[i].Stream : i \in
                   {j \in 1..Len(rs) :
                      rs[j].Stream # NoField /\ Len(rs[j].Stream) > 0}})

\* parseInt of a text: the value of its leading digits, no value (NaN) when
\* there is none
RECURSIVE DigitsValue(_)
DigitsValue(s) ==
    IF Len(s) = 0 THEN 0
    ELSE 10 * DigitsValue(SubSeq(s, 1, Len(s) - 1)) + (IndexIn(Digits, s[Len(s)]) - 1)
parseInt(s) ==
    LET t == trim(s)
        stops == {i \in 1..Len(t) : ~IsDigit(t[i])}
        n == IF stops = {} THEN Len(t)
             ELSE (CHOOSE i \in stops : \A j \in stops : i <= j) - 1
    IN IF n = 0 THEN {} ELSE {DigitsValue(SubSeq(t, 1, n))}

\* const minLMIAsNum = parseInt(minLMIAs) || 1
MinLMIAsNumMut(s) == IF parseInt(s) = {} THEN 1 ELSE CHOOSE n \in parseInt(s) : TRUE
MinLMIAsNum(s) ==
    IF parseInt(s) = {} \/ parseInt(s) = {0} THEN 1
    ELSE CHOOSE n \in parseInt(s) : TRUE

\* (r["Positive LMIAs"] ?? 0) < m : a missing count is 0, a numeric string is
\* its number, any other string is NaN and less than nothing
CountBelowMut(x, m) ==
    IF x.k = "nan" THEN FALSE
    ELSE IF x.k = "undef" THEN 0 < m
    ELSE x.n > m
CountBelow(x, m) ==
    IF x.k = "nan" THEN FALSE
    ELSE IF x.k = "undef" THEN 0 < m
    ELSE x.n < m

\* The filter state
FilterState ==
    [employer |-> employer, province |-> province, city |-> city,
     stream |-> stream, noc |-> noc, minLMIAs |-> minLMIAs]

\* haystack.toLowerCase().includes(needle.trim().toLowerCase())
ContainsFolded(haystack, needle) ==
    Includes(toLowerCase(OrEmpty(haystack)), toLowerCase(trim(needle)))

\* the callback of rows.filter in `filtered`
FilterRowMut(v, r, f) ==
    /\ ~(f.province # TextAll /\ r.Province # f.province)
    /\ ~(f.city # TextAll /\ r.City # f.city)
    /\ ~(f.stream # TextAll /\ r.Stream # f.stream)
    /\ ~CountBelow(r.LMIAs, MinLMIAsNum(f.minLMIAs))
    /\ ~(Len(f.employer) > 0 /\ ~Includes(OrEmpty(r.Employer), f.employer))
    /\ ~(/\ v = "local"
         /\ Len(trim(f.noc)) > 0
         /\ ~ContainsFolded(r.NocCode, f.noc)
         /\ ~ContainsFolded(r.NocTitle, f.noc))
FilterRow(v, r, f) ==
    /\ ~(f.province # TextAll /\ r.Province # f.province)
    /\ ~(f.city # TextAll /\ r.City # f.city)
    /\ ~(f.stream # TextAll /\ r.Stream # f.stream)
    /\ ~CountBelow(r.LMIAs, MinLMIAsNum(f.minLMIAs))
    /\ ~(Len(trim(f.employer)) > 0 /\ ~ContainsFolded(r.Employer, f.employer))
    /\ ~(/\ v = "local"
         /\ Len(trim(f.noc)) > 0
         /\ ~ContainsFolded(r.NocCode, f.noc)
         /\ ~ContainsFolded(r.NocTitle, f.noc))

\* rows.filter(...)
FilterRows(v, rs, f) ==
    LET keep(r) == FilterRow(v, r, f) IN SelectSeq(rs, keep)

filtered == FilterRows(variant, rows, FilterState)

\* totalPages: Math.max(1, Math.ceil(...)) in the provider file,
\* Math.ceil(...) in the local file
TotalPages(v, n, size) ==
    LET ceil == (n + size - 1) \div size
    IN IF v = "provider" /\ ceil < 1 THEN 1 ELSE ceil

totalPages == TotalPages(variant, Len(filtered), rowsPerPage)

\* paginatedData for a page
PageSliceMut(items, page, size) == Slice(items, page * size, page * size + size)
PageSlice(items, page, size) == Slice(items, (page - 1) * size, (page - 1) * size + size)

paginatedData == PageSlice(filtered, currentPage, rowsPerPage)

(***************************************************************************)
(* The explorer: state, fetch and handlers                                 *)
(***************************************************************************)

NoLoadError == "none"
LoadFailed == "Failed to load data"

\* useState initial values of LMIAExplorer; the fetch of the mount effect is
\* in flight
ExInit ==
    /\ variant \in Variants
    /\ inflight = <<"en">>
    /\ fetchLog = [started |-> 1, loaded |-> 0]
    /\ rawData = <<>>
    /\ mapped = <<>>
    /\ rows = <<>>
    /\ citiesByProvince = CitiesByProvinceOf(variant, <<>>)
    /\ streamOptions = StreamOptionsOf(<<>>)
    /\ exLoading = TRUE
    /\ exError = NoLoadError
    /\ language = "en"
    /\ currentPage = 1
    /\ rowsPerPage = 100
    /\ employer = NoText
    /\ province = TextAll
    /\ city = TextAll
    /\ stream = TextAll
    /\ noc = NoText
    /\ minLMIAs = <<"1">>
    /\ exOp = "mount"
    /\ pageBefore = 1

\* The explorer mounted by the provider-backed App
ExIdle == ExInit /\ variant = "provider"

\* Fetches one explorer starts at most (the local file starts one per
\* language change)
MaxFetches == 2

\* one of the fetches in flight resolves with an ok response whose body is
\* the array `data`: .then(map, filter, setRows) and
\* .finally(setLoading(false)); getNotDisclosedText is the one of the render
\* whose effect started the fetch
FetchResolves(data) ==
    /\ \E k \in 1..Len(inflight) :
           /\ inflight' = [i \in 1..(Len(inflight) - 1) |->
                              IF i < k THEN inflight[i] ELSE inflight[i + 1]]
           /\ mapped' = MapRows(variant, inflight[k], data)
           /\ rows' = CleanedData(variant, inflight[k], data)
    /\ fetchLog' = [fetchLog EXCEPT !.loaded = @ + 1]
    /\ rawData' = data
    /\ citiesByProvince' = CitiesByProvinceOf(variant, rows')
    /\ streamOptions' = StreamOptionsOf(rows')
    /\ exLoading' = FALSE
    /\ exOp' = "fetchResolves"
    /\ pageBefore' = currentPage
    /\ UNCHANGED <<variant, exError, language, currentPage, rowsPerPage,
                   employer, province, city, stream, noc, minLMIAs>>
    /\ UNCHANGED <<whVars, authVars, pgVars, lsVars>>

\* one of the fetches in flight rejects, answers with a status that is not
\* ok, or its body does not parse: .catch(setError) and
\* .finally(setLoading(false))
FetchFailsMut ==
    /\ \E k \in 1..Len(inflight) :
           inflight' = [i \in 1..(Len(inflight) - 1) |->
                           IF i < k THEN inflight[i] ELSE inflight[i + 1]]
    /\ exError' = LoadFailed
    /\ exLoading' = exLoading
    /\ exOp' = "fetchFails"
    /\ pageBefore' = currentPage
    /\ UNCHANGED <<variant, fetchLog, rawData, mapped, rows, citiesByProvince,
                   streamOptions, language, currentPage,
                   rowsPerPage, employer, province, city, stream, noc,
                   minLMIAs>>
    /\ UNCHANGED <<whVars, authVars, pgVars, lsVars>>
FetchFails ==
    /\ \E k \in 1..Len(inflight) :
           inflight' = [i \in 1..(Len(inflight) - 1) |->
                           IF i < k THEN inflight[i] ELSE inflight[i + 1]]
    /\ exError' = LoadFailed
    /\ exLoading' = FALSE
    /\ exOp' = "fetchFails"
    /\ pageBefore' = currentPage
    /\ UNCHANGED <<variant, fetchLog, rawData, mapped, rows, citiesByProvince,
                   streamOptions, language, currentPage,
                   rowsPerPage, employer, province, city, stream, noc,
                   minLMIAs>>
    /\ UNCHANGED <<whVars, authVars, pgVars, lsVars>>

\* The filter panel and the table are rendered only past the loading and
\* the error screens
Interactive == ~exLoading /\ exError = NoLoadError

\* The effect on [employer, province, city, stream, minLMIAs] (and noc in
\* the local file): setCurrentPage(1) when one of them changed
PageAfterKeep(changed) == currentPage
PageAfter(changed) == IF changed THEN 1 ELSE currentPage

\* onChange of the language select: setLanguage(l). The load effect of the
\* local file has [language] as its dependencies and runs again, starting
\* one more fetch; the one of the provider-backed file has [] and does not
SetLanguage(l) ==
    /\ Interactive
    /\ l # language
    /\ language' = l
    /\ IF variant = "local"
       THEN /\ fetchLog.started < MaxFetches
            /\ inflight' = Append(inflight, l)
            /\ fetchLog' = [fetchLog EXCEPT !.started = @ + 1]
       ELSE UNCHANGED <<inflight, fetchLog>>
    /\ exOp' = "setLanguage"
    /\ pageBefore' = currentPage
    /\ UNCHANGED <<variant, rawData, mapped, rows, citiesByProvince,
                   streamOptions, exLoading, exError, currentPage,
                   rowsPerPage, employer, province, city, stream, noc,
                   minLMIAs>>
    /\ UNCHANGED <<whVars, authVars, pgVars, lsVars>>

\* onChange of the employer search box / its clear button
SetEmployer(e) ==
    /\ Interactive
    /\ employer' = e
    /\ currentPage' = PageAfter(e # employer)
    /\ exOp' = "setEmployer"
    /\ pageBefore' = currentPage
    /\ UNCHANGED <<variant, inflight, fetchLog, rawData, mapped, rows, citiesByProvince,
                   streamOptions, exLoading,
                   exError, language, rowsPerPage, province, city, stream,
                   noc, minLMIAs>>
    /\ UNCHANGED <<whVars, authVars, pgVars, lsVars>>

\* handleProvinceChange
HandleProvinceChangeMut(p) ==
    /\ Interactive
    /\ province' = p
    /\ currentPage' = 1
    /\ exOp' = "handleProvinceChange"
    /\ pageBefore' = currentPage
    /\ UNCHANGED <<variant, inflight, fetchLog, rawData, mapped, rows, citiesByProvince,
                   streamOptions, exLoading,
                   exError, language, rowsPerPage, employer, city, stream, noc,
                   minLMIAs>>
    /\ UNCHANGED <<whVars, authVars, pgVars, lsVars>>
HandleProvinceChange(p) ==
    /\ Interactive
    /\ province' = p
    /\ city' = TextAll
    /\ currentPage' = 1
    /\ exOp' = "handleProvinceChange"
    /\ pageBefore' = currentPage
    /\ UNCHANGED <<variant, inflight, fetchLog, rawData, mapped, rows, citiesByProvince,
                   streamOptions, exLoading,
                   exError, language, rowsPerPage, employer, stream, noc,
                   minLMIAs>>
    /\ UNCHANGED <<whVars, authVars, pgVars, lsVars>>

\* onChange of the city select: enabled only with a province selected, its
\* options are ALL and citiesByProvince[province]
SetCity(c) ==
    /\ Interactive
    /\ province # TextAll
    /\ c = TextAll \/ c \in Range(citiesByProvince[province])
    /\ city' = c
    /\ currentPage' = PageAfter(c # city)
    /\ exOp' = "setCity"
    /\ pageBefore' = currentPage
    /\ UNCHANGED <<variant, inflight, fetchLog, rawData, mapped, rows, citiesByProvince,
                   streamOptions, exLoading,
                   exError, language, rowsPerPage, employer, province, stream,
                   noc, minLMIAs>>
    /\ UNCHANGED <<whVars, authVars, pgVars, lsVars>>

\* onClick of a quick-city button: setProvince("ALL"); setCity(c)
QuickCity(c) ==
    /\ Interactive
    /\ province' = TextAll
    /\ city' = c
    /\ currentPage' = PageAfter(province # TextAll \/ c # city)
    /\ exOp' = "quickCity"
    /\ pageBefore' = currentPage
    /\ UNCHANGED <<variant, inflight, fetchLog, rawData, mapped, rows, citiesByProvince,
                   streamOptions, exLoading,
                   exError, language, rowsPerPage, employer, stream, noc,
                   minLMIAs>>
    /\ UNCHANGED <<whVars, authVars, pgVars, lsVars>>

\* onChange of the stream select: its options are ALL and streamOptions
SetStream(s) ==
    /\ Interactive
    /\ s = TextAll \/ s \in Range(streamOptions)
    /\ stream' = s
    /\ currentPage' = PageAfter(s # stream)
    /\ exOp' = "setStream"
    /\ pageBefore' = currentPage
    /\ UNCHANGED <<variant, inflight, fetchLog, rawData, mapped, rows, citiesByProvince,
                   streamOptions, exLoading,
                   exError, language, rowsPerPage, employer, province, city,
                   noc, minLMIAs>>
    /\ UNCHANGED <<whVars, authVars, pgVars, lsVars>>

\* onChange of the NOC search box (local file only)
SetNoc(s) ==
    /\ Interactive
    /\ variant = "local"
    /\ noc' = s
    /\ currentPage' = PageAfter(s # noc)
    /\ exOp' = "setNoc"
    /\ pageBefore' = currentPage
    /\ UNCHANGED <<variant, inflight, fetchLog, rawData, mapped, rows, citiesByProvince,
                   streamOptions, exLoading,
                   exError, language, rowsPerPage, employer, province, city,
                   stream, minLMIAs>>
    /\ UNCHANGED <<whVars, authVars, pgVars, lsVars>>

\* /^\d+$/.test(value)
AllDigits(value) == Len(value) > 0 /\ \A i \in 1..Len(value) : IsDigit(value[i])

\* handleMinLMIAsChange
HandleMinLMIAsChange(value) ==
    /\ Interactive
    /\ IF value = NoText \/ AllDigits(value)
       THEN minLMIAs' = value /\ currentPage' = 1
       ELSE UNCHANGED <<minLMIAs, currentPage>>
    /\ exOp' = "handleMinLMIAsChange"
    /\ pageBefore' = currentPage
    /\ UNCHANGED <<variant, inflight, fetchLog, rawData, mapped, rows, citiesByProvince,
                   streamOptions, exLoading,
                   exError, language, rowsPerPage, employer, province, city,
                   stream, noc>>
    /\ UNCHANGED <<whVars, authVars, pgVars, lsVars>>

\* Math.max(1, Math.min(newPage, totalPages))
ClampPage(n, pages) ==
    LET m == IF n < pages THEN n ELSE pages
    IN IF m < 1 THEN 1 ELSE m

\* handlePageChange
HandlePageChange(n) ==
    /\ Interactive
    /\ currentPage' = ClampPage(n, totalPages)
    /\ exOp' = "handlePageChange"
    /\ pageBefore' = currentPage
    /\ UNCHANGED <<variant, inflight, fetchLog, rawData, mapped, rows, citiesByProvince,
                   streamOptions, exLoading,
                   exError, language, rowsPerPage, employer, province, city,
                   stream, noc, minLMIAs>>
    /\ UNCHANGED <<whVars, authVars, pgVars, lsVars>>

\* handleRowsPerPageChange: the select offers ROWS_PER_PAGE_OPTIONS and
\* parseInt(String(n)) || 100 is n for each of them
HandleRowsPerPageChange(n) ==
    /\ Interactive
    /\ rowsPerPage' = n
    /\ currentPage' = 1
    /\ exOp' = "handleRowsPerPageChange"
    /\ pageBefore' = currentPage
    /\ UNCHANGED <<variant, inflight, fetchLog, rawData, mapped, rows, citiesByProvince,
                   streamOptions, exLoading,
                   exError, language, employer, province, city, stream, noc,
                   minLMIAs>>
    /\ UNCHANGED <<whVars, authVars, pgVars, lsVars>>

\* handleClearFilters
HandleClearFilters ==
    /\ Interactive
    /\ employer' = NoText
    /\ province' = TextAll
    /\ city' = TextAll
    /\ stream' = TextAll
    /\ noc' = NoText
    /\ minLMIAs' = <<"1">>
    /\ currentPage' = 1
    /\ exOp' = "handleClearFilters"
    /\ pageBefore' = currentPage
    /\ UNCHANGED <<variant, inflight, fetchLog, rawData, mapped, rows, citiesByProvince,
                   streamOptions, exLoading,
                   exError, language, rowsPerPage>>
    /\ UNCHANGED <<whVars, authVars, pgVars, lsVars>>

\* Bodies of the data file used with the filter panel
ExplorerDatasets == {
    <<>>,
    <<
    [Employer |-> <<"A","c","m","e"," ","C","o","r","p">>,
     City |-> <<"T","o","r","o","n","t","o">>,
     Province |-> <<"O","N">>,
     Stream |-> <<"H","i","g","h"," ","W","a","g","e">>,
     NocCode |-> <<"2","1","7","3">>,
     NocTitle |-> <<"S","o","f","t","w","a","r","e"," ","e","n","g","i","n","e","e","r","s">>,
     LMIAs |-> [k |-> "num", n |-> 5]],
    [Employer |-> <<" ","a","c","m","e"," ","f","o","o","d","s"," ">>,
     City |-> <<"V","a","n","c","o","u","v","e">>,
     Province |-> <<"B","r","i","t","i","s","h"," ","C","o","l","u","m","b","i","a">>,
     Stream |-> <<"L","o","w"," ","W","a","g","e">>,
     NocCode |-> <<"8","4","3","1">>,
     NocTitle |-> <<"F","a","r","m"," ","w","o","r","k","e","r","s">>,
     LMIAs |-> [k |-> "num", n |-> 1]],
    [Employer |-> <<"G","a","m","m","a"," ","I","n","c">>,
     City |-> <<"M","o","n","t","r","e","a","l">>,
     Province |-> <<"Q","C">>,
     Stream |-> <<"L","o","w"," ","W","a","g","e">>,
     NocCode |-> <<"6","7","1","1">>,
     NocTitle |-> <<"F","o","o","d"," ","c","o","u","n","t","e","r"," ","a","t","t","e","n","d","a","n","t","s">>,
     LMIAs |-> [k |-> "num", n |-> 0]],
    [Employer |-> <<"D","e","l","t","a"," ","L","t","d">>,
     City |-> <<"O","t","t","a","w","a">>,
     Province |-> <<" ","o","n"," ">>,
     Stream |-> <<" ","H","i","g","h"," ","W","a","g","e"," ">>,
     NocCode |-> <<"2","1","7","3">>,
     NocTitle |-> <<"S","o","f","t","w","a","r","e"," ","e","n","g","i","n","e","e","r","s">>,
     LMIAs |-> [k |-> "nan", n |-> 0]],
    [Employer |-> NoField,
     City |-> <<"T","o","r","o","n","t","o">>,
     Province |-> <<"O","n","t","a","r","i","o">>,
     Stream |-> NoField,
     NocCode |-> NoField,
     NocTitle |-> NoField,
     LMIAs |-> [k |-> "undef", n |-> 0]],
    [Employer |-> <<"O","m","e","g","a">>,
     City |-> <<"T","o","r","o","n","t","o">>,
     Province |-> <<"X","X">>,
     Stream |-> <<"H","i","g","h"," ","W","a","g","e">>,
     NocCode |-> <<"0","0","0","0">>,
     NocTitle |-> <<"D","r","o","p","p","e","d">>,
     LMIAs |-> [k |-> "num", n |-> 5]],
    [Employer |-> <<"A","c","m","e"," ","C","o","r","p">>,
     City |-> <<"t","o","r","o","n","t">>,
     Province |-> <<"O","N">>,
     Stream |-> <<"H","i","g","h"," ","W","a","g","e">>,
     NocCode |-> <<"2","1","7","3">>,
     NocTitle |-> <<"S","o","f","t","w","a","r","e"," ","e","n","g","i","n","e","e","r","s">>,
     LMIAs |-> [k |-> "str", n |-> 2]],
    [Employer |-> <<"B","e","t","a">>,
     City |-> <<"u","n","k","n","o","w","n">>,
     Province |-> <<"A","B">>,
     Stream |-> <<"L","o","w"," ","W","a","g","e">>,
     NocCode |-> <<"2","1">>,
     NocTitle |-> <<"A","n","a","l","y","s","t","s">>,
     LMIAs |-> [k |-> "num", n |-> 7]]>>}

\* Choices made in the selects and the quick-city buttons
ProvinceChoices == {TextAll, <<"O","N">>, <<"B","C">>, <<"Q","C">>, <<"A","B">>, <<"N","U">>}
CityChoices ==
    {TextAll} \cup UNION {Range(CitiesOf(v, CleanedData(v, "en", d), p)) :
                            v \in Variants, d \in ExplorerDatasets, p \in Range(PROVINCES)}
StreamChoices ==
    {TextAll} \cup UNION {{r.Stream : r \in Range(CleanedData(v, "en", d))} :
                            v \in Variants, d \in ExplorerDatasets}
QuickCities == {<<"T","o","r","o","n","t","o">>, <<"V","a","n","c","o","u","v","e","r">>, <<"C","a","l","g","a","r","y">>}

\* Values typed into the search boxes and the threshold box
EmployerInputs == {NoText, <<" ","A","C","M","E"," ">>}
NocInputs == {NoText, <<" ","S","o","f","t"," ">>}
MinInputs == {NoText, <<"0">>, <<"1">>, <<"4">>, <<"a","b","c">>}
\* Page numbers asked of handlePageChange
MaxPageRequest == 2
PageRequests == 0..MaxPageRequest

LoadNext ==
    \/ \E data \in LoadInputs : FetchResolves(data)
    \/ FetchFails

ExNext ==
    \/ \E data \in ExplorerDatasets : FetchResolves(data)
    \/ FetchFails
    \/ \E e \in EmployerInputs : SetEmployer(e)
    \/ \E p \in ProvinceChoices : HandleProvinceChange(p)
    \/ \E c \in CityChoices : SetCity(c)
    \/ \E c \in QuickCities : QuickCity(c)
    \/ \E s \in StreamChoices : SetStream(s)
    \/ \E s \in NocInputs : SetNoc(s)
    \/ \E value \in MinInputs : HandleMinLMIAsChange(value)
    \/ \E n \in PageRequests : HandlePageChange(n)
    \/ \E n \in ROWS_PER_PAGE_OPTIONS : HandleRowsPerPageChange(n)
    \/ HandleClearFilters

\* Records of the dataset of several pages
MaxViewRows == 51
\* Two provinces alternate, every third record is of the other stream
ViewData ==
    [i \in 1..MaxViewRows |->
        [BaseRow EXCEPT
            !.Employer = <<"A","b">>,
            !.City = IF i % 2 = 1 THEN <<"A","j","a","x">>
                     ELSE <<"O","l","d","s">>,
            !.Province = IF i % 2 = 1 THEN <<"O","N">> ELSE <<"A","B">>,
            !.Stream = IF i % 3 = 0 THEN <<"L","o">>
                       ELSE <<"H","i">>,
            !.NocTitle = <<"I","T">>,
            !.LMIAs = [k |-> "num", n |-> (i % 5) + 1]]]

\* a fetch in flight settles
FetchSettles == (\E data \in {<<>>, ViewData} : FetchResolves(data)) \/ FetchFails

ViewNext ==
    \/ \E data \in {<<>>, ViewData} : FetchResolves(data)
    \/ FetchFails
    \/ \E l \in {"en", "fr"} : SetLanguage(l)
    \/ \E e \in {<<"z","z">>} : SetEmployer(e)
    \/ \E p \in {<<"O","N">>} : HandleProvinceChange(p)
    \/ \E c \in {<<"A","j","a","x">>} : SetCity(c)
    \/ \E c \in {<<"T","o","r","o","n","t","o">>} : QuickCity(c)
    \/ \E s \in {<<"H","i">>} : SetStream(s)
    \/ \E s \in {<<"2">>} : SetNoc(s)
    \/ \E value \in {<<"4">>, <<"x">>} : HandleMinLMIAsChange(value)
    \/ \E n \in 0..(MaxPageRequest + 1) : HandlePageChange(n)
    \/ \E n \in {50, 100} : HandleRowsPerPageChange(n)
    \/ HandleClearFilters

(***************************************************************************)
(* Pagination of a list, page by page                                      *)
(***************************************************************************)

\* Lists of up to MaxFullPages full pages, at and next to a page boundary
MaxFullPages == 2
PgLengths ==
    {s * q + d : s \in ROWS_PER_PAGE_OPTIONS, q \in 0..MaxFullPages, d \in {0, 1, 49}}

PgIdle == pgItems = <<>> /\ pgSize = 100 /\ pgPages = <<>>

PgInit ==
    /\ pgItems \in {[i \in 1..n |-> i] : n \in PgLengths}
    /\ pgSize \in ROWS_PER_PAGE_OPTIONS
    /\ pgPages = <<>>

\* the next page of 1..totalPages is displayed
ShowNextPage ==
    /\ Len(pgPages) < TotalPages(variant, Len(pgItems), pgSize)
    /\ pgPages' = Append(pgPages, PageSlice(pgItems, Len(pgPages) + 1, pgSize))
    /\ UNCHANGED <<pgItems, pgSize>>
    /\ UNCHANGED <<whVars, authVars, exVars, lsVars>>

PgNext == ShowNextPage

(***************************************************************************)
(* The local-storage auth provider                                         *)
(***************************************************************************)

\* Stored users kept at most
MaxUsers == 2

\* a fresh browser: no "lmia_users", no "lmia_session"; useState(getSession)
LsInit ==
    /\ lsUsers = <<>>
    /\ lsSession = <<>>
    /\ lsUser = <<>>
    /\ lsResult = <<>>
    /\ lsOp = "mount"

\* signup(name, email, password), then the effect saveSession(user)
Signup(name, email, password) ==
    LET stored == [name |-> trim(name), email |-> toLowerCase(trim(email)),
                   password |-> password]
        taken == \E i \in 1..Len(lsUsers) :
                     toLowerCase(lsUsers[i].email) = toLowerCase(email)
        err == IF Len(trim(name)) = 0 THEN "Name is required"
               ELSE IF Len(trim(email)) = 0 THEN "Email is required"
               ELSE IF Len(password) < 6 THEN "Password must be at least 6 characters"
               ELSE IF taken THEN "An account with this email already exists"
               ELSE "null"
    IN /\ err = "null" => Len(lsUsers) < MaxUsers
       /\ lsResult' = <<err>>
       /\ IF err = "null"
          THEN /\ lsUsers' = Append(lsUsers, stored)
               /\ lsUser' = <<[email |-> stored.email, name |-> stored.name]>>
               /\ lsSession' = lsUser'
          ELSE UNCHANGED <<lsUsers, lsUser, lsSession>>
       /\ lsOp' = "signup"
       /\ UNCHANGED <<whVars, authVars, exVars, pgVars>>

\* login(email, password), then the effect saveSession(user)
Login(email, password) ==
    LET hits == {i \in 1..Len(lsUsers) :
                    /\ toLowerCase(lsUsers[i].email) = toLowerCase(email)
                    /\ lsUsers[i].password = password}
        found == lsUsers[CHOOSE i \in hits : \A k \in hits : i <= k]
    IN /\ IF hits = {}
          THEN /\ lsResult' = <<"Invalid email or password">>
               /\ UNCHANGED <<lsUser, lsSession>>
          ELSE /\ lsResult' = <<"null">>
               /\ lsUser' = <<[email |-> found.email, name |-> found.name]>>
               /\ lsSession' = lsUser'
       /\ lsOp' = "login"
       /\ UNCHANGED lsUsers
       /\ UNCHANGED <<whVars, authVars, exVars, pgVars>>

\* logout(), then the effect saveSession(null)
LsLogout ==
    /\ lsUser' = <<>>
    /\ lsSession' = <<>>
    /\ lsResult' = <<>>
    /\ lsOp' = "logout"
    /\ UNCHANGED lsUsers
    /\ UNCHANGED <<whVars, authVars, exVars, pgVars>>

\* Arguments of the calls: names, emails and passwords around each test
LsNext ==
    \/ \E name \in {<<"A","n","n">>, <<" ","B","o">>, <<" ">>, <<>>} :
       \E email \in {<<"a","@","x",".","c","o">>, <<"A","@","x",".","c","o">>,
                     <<" ","a","@","x",".","c","o">>, <<"b","@","x",".","c","o">>,
                     <<" ">>, <<>>} :
       \E password \in {<<"s","e","c","r","e","t">>, <<"s","e","c","r","e">>} :
           Signup(name, email, password)
    \/ \E email \in {<<"A","@","x",".","c","o">>, <<"b","@","x",".","c","o">>,
                     <<" ","a","@","x",".","c","o">>} :
       \E password \in {<<"s","e","c","r","e","t">>, <<"s","e","c","r","e">>} :
           Login(email, password)
    \/ LsLogout

(***************************************************************************)
(* Specifications                                                          *)
(***************************************************************************)

Init == WhInit /\ AuthInit /\ ExInit /\ PgInit /\ LsInit

Next == WhNext \/ AuthNext \/ LoadNext \/ ExNext \/ ViewNext \/ PgNext \/ LsNext

\* The deployable units share no state; each is checked on its own, the
\* others at rest.
WhIdle ==
    /\ env = [KAJABI_WEBHOOK_SECRET |-> Undef, VITE_SUPABASE_URL |-> Undef,
              SUPABASE_SERVICE_ROLE_KEY |-> Undef, SITE_URL |-> Undef]
    /\ req = NoReq
    /\ whPc = "idle"
    /\ examined = <<>>
    /\ inviteCalls = <<>>
    /\ inviteResult = <<>>
    /\ responses = <<>>

WhStart == WhInit /\ AuthInit /\ ExIdle /\ PgIdle /\ LsInit
SpecWebhook == WhStart /\ [][WhNext]_vars

AuthStart == AuthInit /\ WhIdle /\ ExIdle /\ PgIdle /\ LsInit
SpecAuth == AuthStart /\ [][AuthNext]_vars

\* The explorer of either file, from its mount
ExStart == ExInit /\ WhIdle /\ AuthInit /\ PgIdle /\ LsInit
\* the mount effect alone, over the bodies of the load check
SpecLoad == ExStart /\ [][LoadNext]_vars
\* the explorer with its filter panel
SpecExplorer == ExStart /\ [][ExNext]_vars
\* the explorer over a dataset of several pages, with the language select
SpecView == ExStart /\ [][ViewNext]_vars
\* the same, every fetch settling at some time
SpecViewFair == SpecView /\ WF_vars(FetchSettles)

\* The local-storage auth provider, from a fresh browser
LsStart == LsInit /\ WhIdle /\ AuthInit /\ ExIdle /\ PgIdle
SpecLocalAuth == LsStart /\ [][LsNext]_vars

\* Pagination of lists of every boundary length, page by page
PgStart == PgInit /\ ExInit /\ WhIdle /\ AuthInit /\ LsInit
SpecPaging == PgStart /\ [][PgNext]_vars

Spec == Init /\ [][Next]_vars

(***************************************************************************)
(* Properties of the webhook handler (checked under SpecWebhook)           *)
(***************************************************************************)

\* The request of the current invocation, in terms of its raw fields
Handled == whPc # "idle"
IsPost == req.method = "POST"
SecretMatches == req.secret \notin {Undef, ""} /\ req.secret = env.KAJABI_WEBHOOK_SECRET
EnvComplete ==
    /\ env.VITE_SUPABASE_URL \notin {Undef, ""}
    /\ env.SUPABASE_SERVICE_ROLE_KEY \notin {Undef, ""}
EmailGiven == req.body.present /\ req.body.email \notin {Undef, ""}
Answered(status, body) == responses = <<[status |-> status, body |-> body]>>
InviteFailed == inviteResult # <<>> /\ inviteResult[1].error.isError

\* C1: the invite operation is called at most once per request, and only
\* for a POST with the matching secret, a complete configuration and a
\* non-empty email, the four guards having been evaluated in that order; a
\* request failing a guard never reaches the provider and a failed invite is
\* not retried.
C1_InviteOnlyAfterAllGuards ==
    /\ Len(inviteCalls) <= 1
    /\ inviteCalls # <<>> =>
          /\ IsPost /\ SecretMatches /\ EnvComplete /\ EmailGiven
          /\ examined = <<"method", "secret", "config", "body">>
          /\ inviteCalls[1].email = req.body.email
    /\ (Handled /\ ~(IsPost /\ SecretMatches /\ EnvComplete /\ EmailGiven)) =>
          inviteCalls = <<>> /\ inviteResult = <<>>
    /\ InviteFailed => Len(inviteCalls) = 1 /\ whPc = "done"

C1_Witness ==
    /\ InviteFailed
    /\ Len(inviteCalls) = 1
    /\ whPc = "done"
    /\ responses[1].status = 500

\* C2: a POST whose secret is missing, empty or different from the
\* server-held secret is answered 401 Unauthorized, in particular every POST
\* made while the server-held secret is not configured, and before the
\* configuration and the email are looked at.
C2_BadSecretIs401 ==
    /\ (Handled /\ IsPost
        /\ (req.secret = Undef \/ req.secret = ""
            \/ req.secret # env.KAJABI_WEBHOOK_SECRET)) =>
          /\ Answered(401, [error |-> "Unauthorized"])
          /\ inviteCalls = <<>>
          /\ examined = <<"method", "secret">>
    /\ (Handled /\ IsPost /\ env.KAJABI_WEBHOOK_SECRET = Undef) =>
          Answered(401, [error |-> "Unauthorized"])

C2_Witness ==
    /\ Handled /\ IsPost
    /\ env.KAJABI_WEBHOOK_SECRET = Undef
    /\ req.secret = Undef
    /\ ~EnvComplete
    /\ ~EmailGiven
    /\ Answered(401, [error |-> "Unauthorized"])

\* C3: a request whose method is not POST is answered 405 whatever its
\* secret, body and the configuration, and only the method is examined.
C3_NonPostIs405 ==
    (Handled /\ req.method # "POST") =>
        /\ Answered(405, [error |-> "Method not allowed"])
        /\ examined = <<"method">>
        /\ inviteCalls = <<>>

C3_Witness ==
    /\ Handled
    /\ req.method = "PUT"
    /\ SecretMatches /\ EnvComplete /\ EmailGiven
    /\ Answered(405, [error |-> "Method not allowed"])

\* C4: when the invite fails with a message containing "already" or with
\* status 422, the answer is 200 with the already-exists message.
C4_AlreadyExistsIs200 ==
    (InviteFailed
     /\ (Includes(inviteResult[1].error.message, Already)
         \/ inviteResult[1].error.status = {422})) =>
        Answered(200, [message |-> "User already exists, skipping invite"])

C4_Witness ==
    /\ InviteFailed
    /\ inviteResult[1].error.status = {422}
    /\ ~Includes(inviteResult[1].error.message, Already)
    /\ Answered(200, [message |-> "User already exists, skipping invite"])

\* C5: when the invite fails with a message without "already" and a status
\* other than 422, the answer is 500 with the fixed text "Failed to invite
\* user" and nothing else in the body.
C5_OtherErrorIs500 ==
    (InviteFailed
     /\ ~Includes(inviteResult[1].error.message, Already)
     /\ inviteResult[1].error.status # {422}) =>
        /\ Answered(500, [error |-> "Failed to invite user"])
        /\ DOMAIN responses[1].body = {"error"}

C5_Witness ==
    /\ InviteFailed
    /\ inviteResult[1].error.message = MsgCapital
    /\ inviteResult[1].error.status = {400}
    /\ Answered(500, [error |-> "Failed to invite user"])

\* C6: an authorized POST while the backing-store URL or the service key is
\* absent is answered 500 "Server misconfigured" without an invite and
\* without the body being read, so also when the email is missing.
C6_MisconfiguredIs500 ==
    (Handled /\ IsPost /\ SecretMatches /\ ~EnvComplete) =>
        /\ Answered(500, [error |-> "Server misconfigured"])
        /\ inviteCalls = <<>>
        /\ examined = <<"method", "secret", "config">>

C6_Witness ==
    /\ Handled /\ IsPost /\ SecretMatches
    /\ env.VITE_SUPABASE_URL = "https://db"
    /\ env.SUPABASE_SERVICE_ROLE_KEY = Undef
    /\ ~EmailGiven
    /\ Answered(500, [error |-> "Server misconfigured"])

\* C7: an authorized POST on a configured server without an email (no
\* body, no email field, empty email) is answered 400 without an invite; a
\* request with an email is never answered 400 and is passed to the invite
\* call whether or not it has a name.
C7_MissingEmailIs400 ==
    /\ (Handled /\ IsPost /\ SecretMatches /\ EnvComplete /\ ~EmailGiven) =>
          /\ Answered(400, [error |-> "Missing email in webhook payload"])
          /\ inviteCalls = <<>>
    /\ (Handled /\ IsPost /\ SecretMatches /\ EnvComplete /\ EmailGiven) =>
          /\ Len(inviteCalls) = 1
          /\ \A i \in 1..Len(responses) : responses[i].status # 400

C7_Witness ==
    /\ Handled /\ IsPost /\ SecretMatches /\ EnvComplete
    /\ req.body.present /\ req.body.email = "" /\ req.body.name = "Ann"
    /\ Answered(400, [error |-> "Missing email in webhook payload"])

C7_WitnessNoName ==
    /\ Handled /\ IsPost /\ SecretMatches /\ EnvComplete /\ EmailGiven
    /\ req.body.name = Undef
    /\ Len(inviteCalls) = 1
    /\ inviteCalls[1].name = ""

\* C8: an invocation answers exactly once, with a status among 200, 400,
\* 401, 405 and 500; the answer is a 200 carrying the user identifier
\* exactly when the invite call returned without an error.
C8_OneResponse ==
    /\ Len(responses) <= 1
    /\ whPc = "awaitInvite" => responses = <<>>
    /\ whPc = "done" =>
          /\ Len(responses) = 1
          /\ responses[1].status \in {200, 400, 401, 405, 500}
          /\ ("userId" \in DOMAIN responses[1].body /\ responses[1].status = 200)
                <=> (inviteResult # <<>> /\ ~inviteResult[1].error.isError)
          /\ (inviteResult # <<>> /\ ~inviteResult[1].error.isError) =>
                responses[1].body.userId = inviteResult[1].userId

C8_Witness ==
    /\ whPc = "done"
    /\ inviteResult # <<>>
    /\ ~inviteResult[1].error.isError
    /\ Answered(200, [message |-> "User invited successfully", userId |-> "u2"])

(***************************************************************************)
(* Properties of the auth gate (checked under SpecAuth)                    *)
(***************************************************************************)

\* C9: the explorer is rendered only when loading is false, recovery mode
\* is off and a user is present; while loading neither the explorer nor the
\* auth page is rendered; the gate starts in loading, and loading lasts
\* exactly as long as the session lookup is pending.
C9_ExplorerOnlyWhenAuthenticated ==
    /\ View = "explorer" => ~loading /\ ~isRecoveryMode /\ user # NoUser
    /\ loading => View = "spinner" /\ authMode = "unmounted"
    /\ authMode # "unmounted" => View = "auth"
    /\ lastOp = "mount" => loading
    /\ loading <=> sessionLookup = "pending"

C9_Witness ==
    /\ View = "explorer"
    /\ lastOp = "getSession"
    /\ user.email = "a@b.com"

\* C10 as stated: right after a password-recovery event the gate presents
\* the set-new-password form.
C10_Original ==
    lastOp = "PASSWORD_RECOVERY" =>
        /\ isRecoveryMode
        /\ View = "auth"
        /\ authMode = "setPassword"

\* C10 amended: right after a password-recovery event, with or without a
\* session, recovery mode is on and the explorer is not rendered; the gate
\* presents the set-new-password form if the session lookup has finished and
\* the loading indicator otherwise; and whenever recovery mode is on and
\* loading is over, the auth page is on the set-new-password form.
C10_RecoveryEvent ==
    /\ lastOp = "PASSWORD_RECOVERY" =>
          /\ isRecoveryMode
          /\ View # "explorer"
          /\ ~loading => View = "auth" /\ authMode = "setPassword"
          /\ loading => View = "spinner"
    /\ (isRecoveryMode /\ ~loading) => View = "auth" /\ authMode = "setPassword"

C10_Witness ==
    /\ lastOp = "PASSWORD_RECOVERY"
    /\ user # NoUser
    /\ ~loading
    /\ authMode = "setPassword"

C10_WitnessNoSession ==
    /\ lastOp = "PASSWORD_RECOVERY"
    /\ user = NoUser
    /\ ~loading
    /\ authMode = "setPassword"

\* The gate state once the session lookup has finished
Authenticated == ~loading /\ View = "explorer"
Unauthenticated == ~loading /\ ~isRecoveryMode /\ View = "auth" /\ user = NoUser
RecoveryEnded == recoveryBefore /\ ~isRecoveryMode

\* C11 as stated: recovery mode ends only through a successful password
\* update or an explicit sign-out, the gate being unauthenticated after the
\* password update and authenticated after the sign-out; a rejected update
\* leaves recovery mode on.
C11_Original ==
    /\ RecoveryEnded => lastOp \in {"updatePasswordOk", "logout"}
    /\ (RecoveryEnded /\ lastOp = "updatePasswordOk" /\ ~loading) => Unauthenticated
    /\ (RecoveryEnded /\ lastOp = "logout" /\ ~loading) => Authenticated
    /\ lastOp = "updatePasswordError" => isRecoveryMode = recoveryBefore

\* C11 amended: recovery mode ends only through a successful password
\* update, a completed explicit sign-out or a signed-out notification; after
\* the password update the gate is authenticated if a user is present and
\* unauthenticated otherwise, after a sign-out it is unauthenticated; a
\* rejected update leaves recovery mode as it was.
C11_RecoveryEnds ==
    /\ RecoveryEnded => lastOp \in {"updatePasswordOk", "logout", "SIGNED_OUT"}
    /\ (RecoveryEnded /\ lastOp = "updatePasswordOk" /\ ~loading) =>
          IF user # NoUser THEN Authenticated ELSE Unauthenticated
    /\ (RecoveryEnded /\ lastOp \in {"logout", "SIGNED_OUT"}) =>
          user = NoUser /\ (~loading => Unauthenticated)
    /\ lastOp = "updatePasswordError" => isRecoveryMode = recoveryBefore
    /\ lastOp = "updatePasswordOk" => ~isRecoveryMode

C11_Witness ==
    /\ RecoveryEnded
    /\ lastOp = "updatePasswordOk"
    /\ user # NoUser
    /\ Authenticated

\* C12: after an explicit sign-out has completed or a signed-out
\* notification was processed, the user is null and recovery mode is off,
\* and the gate, once out of loading, shows the auth page and not the
\* explorer, whether the gate was authenticated or in recovery before.
C12_SignOutClears ==
    lastOp \in {"logout", "SIGNED_OUT"} =>
        /\ user = NoUser
        /\ ~isRecoveryMode
        /\ ~loading => Unauthenticated /\ authMode # "unmounted"

C12_Witness ==
    /\ lastOp = "SIGNED_OUT"
    /\ recoveryBefore
    /\ Unauthenticated

(***************************************************************************)
(* Properties of the dataset loader (checked under SpecLoad)               *)
(***************************************************************************)

Loaded == exOp = "fetchResolves"

\* C13: every record of the loaded dataset has a Province among the 13
\* codes and a non-empty City which, as carried by the record, passes the
\* city validity rule; the other rows are dropped and no error is raised.
C13_LoadedRecordsValid ==
    Loaded =>
        /\ \A i \in 1..Len(rows) :
              /\ rows[i].Province \in Range(PROVINCES)
              /\ Len(rows[i].City) > 0
              /\ isValidCityName(variant, rows[i].City)
        /\ exError = NoLoadError

\* C14: normalizing twice equals normalizing once, for every city of the
\* fetched array that passes the city validity rule.
C14_NormalizeIdempotent ==
    \A i \in 1..Len(rawData) :
        LET c == TrimOrEmpty(rawData[i].City)
        IN (Len(c) > 0 /\ isValidCityName(variant, c)) =>
              normalizeCityName(variant, normalizeCityName(variant, c))
                  = normalizeCityName(variant, c)

\* The Province of a raw row, trimmed and upper-cased
UpperProvince(row) ==
    IF row.Province = NoField THEN NoText ELSE toUpperCase(trim(row.Province))
IsFullName(up) == \E pn \in PROVINCE_NAMES : toUpperCase(pn[2]) = up

\* C15: a raw Province that is, trimmed and upper-cased, a full province
\* name is normalized to the code the name table gives for it; a raw
\* Province that is neither a full name nor a code is normalized to the empty
\* string and its row is not in the loaded dataset.
C15_ProvinceNormalized ==
    Loaded =>
        /\ Len(mapped) = Len(rawData)
        /\ \A i \in 1..Len(rawData) :
              LET up == UpperProvince(rawData[i]) IN
              /\ \A pn \in PROVINCE_NAMES :
                    toUpperCase(pn[2]) = up => mapped[i].Province = pn[1]
              /\ (~IsFullName(up) /\ up \notin Range(PROVINCES)) =>
                    mapped[i].Province = NoText
        /\ \A j \in 1..Len(rows) : Len(rows[j].Province) > 0
        /\ Len(rows) <= Cardinality({i \in 1..Len(mapped) : Len(mapped[i].Province) > 0})

\* a full name was mapped to its code and kept, next to a dropped row of an
\* unrecognized province
C15_Witness ==
    /\ Loaded
    /\ Len(rawData) = 2 /\ Len(rows) = 1
    /\ UpperProvince(rawData[1]) = <<"O","N","T","A","R","I","O">>
    /\ rows[1].Province = <<"O","N">>
    /\ ~IsFullName(UpperProvince(rawData[2]))
    /\ UpperProvince(rawData[2]) \notin Range(PROVINCES)
    /\ UpperProvince(rawData[2]) # NoText

(***************************************************************************)
(* Properties of the filter panel (checked under SpecExplorer)             *)
(***************************************************************************)

\* The threshold read from the text of the input: its number when the text
\* is a number of at least 1, otherwise 1
Threshold == IF AllDigits(minLMIAs) /\ DigitsValue(minLMIAs) >= 1 THEN DigitsValue(minLMIAs) ELSE 1

\* text contains the trimmed needle, ignoring case; a missing text is empty
ContainsText(text, needle) ==
    LET hay == IF text = NoField THEN NoText ELSE toLowerCase(text)
        ndl == toLowerCase(trim(needle))
    IN \E k \in 0..(Len(hay) - Len(ndl)) : SubSeq(hay, k + 1, k + Len(ndl)) = ndl

SelectionMatches(r) ==
    /\ province = TextAll \/ r.Province = province
    /\ city = TextAll \/ r.City = city
    /\ stream = TextAll \/ r.Stream = stream
    /\ trim(employer) = NoText \/ ContainsText(r.Employer, employer)

\* The criteria as first stated: selections, employer text, count at least
\* the threshold
StatedCriteria(r) ==
    /\ SelectionMatches(r)
    /\ r.LMIAs.k \in {"num", "str"} /\ r.LMIAs.n >= Threshold

\* The criteria of the two files: a count that is no number is never below
\* the threshold; the local file adds the NOC text
ActualCriteria(r) ==
    /\ SelectionMatches(r)
    /\ \/ r.LMIAs.k = "nan"
       \/ r.LMIAs.k \in {"num", "str"} /\ r.LMIAs.n >= Threshold
    /\ \/ variant # "local"
       \/ trim(noc) = NoText
       \/ ContainsText(r.NocCode, noc)
       \/ ContainsText(r.NocTitle, noc)

Kept(f) == {i \in 1..Len(rows) : FilterRow(variant, rows[i], f)}

\* The filter states the current one is obtained from by making one more
\* criterion active or by raising the threshold
Relaxations ==
    (IF province # TextAll THEN {[FilterState EXCEPT !.province = TextAll]} ELSE {})
    \cup (IF city # TextAll THEN {[FilterState EXCEPT !.city = TextAll]} ELSE {})
    \cup (IF stream # TextAll THEN {[FilterState EXCEPT !.stream = TextAll]} ELSE {})
    \cup (IF trim(employer) # NoText THEN {[FilterState EXCEPT !.employer = NoText]} ELSE {})
    \cup (IF trim(noc) # NoText THEN {[FilterState EXCEPT !.noc = NoText]} ELSE {})
    \cup {[FilterState EXCEPT !.minLMIAs = m] :
             m \in {t \in MinInputs : (t = NoText \/ AllDigits(t)) /\ MinLMIAsNum(t) < MinLMIAsNum(minLMIAs)}}

\* C17: making one more criterion active (province, city or stream from
\* all to a value, employer or NOC text from blank to non-blank) or raising the
\* threshold never adds a record: the subset is contained in the one before
\* and is not larger.
C17_Monotonic ==
    \A g \in Relaxations :
        /\ Kept(FilterState) \subseteq Kept(g)
        /\ Len(filtered) <= Len(FilterRows(variant, rows, g))

\* a raised threshold and an added stream each removed a record
C17_Witness ==
    /\ stream # TextAll /\ MinLMIAsNum(minLMIAs) > 1
    /\ Len(filtered) > 0
    /\ \A g \in Relaxations : Len(filtered) < Len(FilterRows(variant, rows, g))

\* C18: an input that is empty, non-numeric or "0" filters exactly as "1"
\* does; the threshold in force is at least 1; no record with a count below
\* 1, a missing count included, is in the filtered subset.
C18_ThresholdAtLeastOne ==
    /\ \A value \in MinInputs :
          (value = NoText \/ ~AllDigits(value) \/ value = <<"0">>) =>
              FilterRows(variant, rows, [FilterState EXCEPT !.minLMIAs = value])
                  = FilterRows(variant, rows, [FilterState EXCEPT !.minLMIAs = <<"1">>])
    /\ MinLMIAsNum(minLMIAs) >= 1
    /\ minLMIAs = NoText \/ AllDigits(minLMIAs)
    /\ \A i \in 1..Len(filtered) :
          /\ filtered[i].LMIAs.k # "undef"
          /\ filtered[i].LMIAs.k \in {"num", "str"} => filtered[i].LMIAs.n >= 1

\* "0" was typed, a record with count 0 is loaded, and records are shown
C18_Witness ==
    /\ exOp = "handleMinLMIAsChange"
    /\ minLMIAs = <<"0">>
    /\ \E i \in 1..Len(rows) : rows[i].LMIAs = Num(0)
    /\ Len(filtered) > 0

\* C19 as first stated: the city is all or is listed for the selected
\* province, which is then not all; a province change resets the city.
C19_Original ==
    /\ \/ city = TextAll
       \/ province # TextAll /\ city \in Range(citiesByProvince[province])
    /\ exOp = "handleProvinceChange" => city = TextAll

\* C19: the selected city is all, or a city listed in the dictionary entry
\* of the selected province (which is then not all), or one of the quick-pick
\* cities with the province at all; a change made in the province select
\* resets the city to all.
C19_CityWithinProvince ==
    /\ \/ city = TextAll
       \/ province # TextAll /\ city \in Range(citiesByProvince[province])
       \/ province = TextAll /\ city \in Range(TOP_CITIES)
    /\ exOp = "handleProvinceChange" => city = TextAll
    /\ exOp = "quickCity" => province = TextAll /\ city \in Range(TOP_CITIES)

C19_Witness ==
    /\ exOp = "quickCity"
    /\ province = TextAll
    /\ city \in Range(TOP_CITIES)
    /\ \A p \in Range(PROVINCES) : city \notin Range(citiesByProvince[p])

\* a city of the dictionary is selected within its province
C19_WitnessListed ==
    /\ exOp = "setCity"
    /\ province # TextAll
    /\ city \in Range(citiesByProvince[province])

(***************************************************************************)
(* Properties of pagination (checked under SpecPaging)                     *)
(***************************************************************************)

RECURSIVE Flatten(_)
Flatten(pages) == IF pages = <<>> THEN <<>> ELSE Head(pages) \o Flatten(Tail(pages))

PageCount == TotalPages(variant, Len(pgItems), pgSize)

\* C20: the slices of pages 1 to pageCount, concatenated in order, are the
\* list itself, every record on exactly one page; the pages displayed so far
\* are its beginning; no page beyond pageCount holds a record.
C20_PagesCoverOnce ==
    /\ Len(pgPages) <= PageCount
    /\ Flatten(pgPages) = SubSeq(pgItems, 1, Len(Flatten(pgPages)))
    /\ \A k \in 1..Len(pgPages) : Len(pgPages[k]) <= pgSize
    /\ Len(pgPages) = PageCount =>
          /\ Flatten(pgPages) = pgItems
          /\ \A i \in 1..Len(pgItems) :
                Cardinality({k \in 1..Len(pgPages) : i \in Range(pgPages[k])}) = 1
    /\ \A k \in 1..2 : PageSlice(pgItems, PageCount + k, pgSize) = <<>>

\* two full pages and a last page of one record
C20_Witness ==
    /\ pgSize = 500
    /\ Len(pgItems) = 1001
    /\ Len(pgPages) = 3
    /\ Len(pgPages[3]) = 1

(***************************************************************************)
(* Further properties of the auth gate (checked under SpecAuth)            *)
(***************************************************************************)

\* C27: when the session lookup resolves after a provider notification was
\* processed, the user stays the one of that notification; in particular a
\* lookup without a session does not reset a signed-in user to null.
C27_NotifiedUserKept ==
    (lastOp = "getSession" /\ notified # <<>>) => user = notified[1]

\* C28: in every settled state where the auth page is displayed and
\* recovery mode is off, the page is on the login or the forgot-password
\* form.
C28_SetPasswordOnlyInRecovery ==
    (~loading /\ View = "auth" /\ ~isRecoveryMode) => authMode \in {"login", "forgot"}

(***************************************************************************)
(* Province-to-city dictionary against the loaded records (SpecLoad)       *)
(***************************************************************************)

\* C29: every city listed in the dictionary for a province is the City of
\* at least one loaded record of that province.
C29_ListedCityCarried ==
    Loaded =>
        \A p \in Range(PROVINCES) :
            \A c \in Range(citiesByProvince[p]) :
                \E i \in 1..Len(rows) : rows[i].Province = p /\ rows[i].City = c

(***************************************************************************)
(* Insights: the top province (provider-backed explorer, SpecExplorer)     *)
(***************************************************************************)

\* insights.topProvince before the display name is appended: byProvince is
\* filled in the order of the records, Object.entries keeps that order, the
\* sort by descending sum is stable, and an empty table gives the dash
TopProvinceMut(rs) ==
    LET RECURSIVE byProvince(_, _)
        byProvince(i, acc) ==
            IF i > Len(rs) THEN acc
            ELSE LET r == rs[i]
                     c == IF r.LMIAs.k = "undef" THEN 0 ELSE r.LMIAs.n
                     at == {j \in 1..Len(acc) : acc[j].p = r.Province}
                 IN IF Len(r.Province) = 0 THEN byProvince(i + 1, acc)
                    ELSE IF at = {}
                    THEN byProvince(i + 1, Append(acc, [p |-> r.Province, n |-> c]))
                    ELSE byProvince(i + 1,
                             [j \in 1..Len(acc) |->
                                 IF j \in at THEN [acc[j] EXCEPT !.n = @ + c] ELSE acc[j]])
        RECURSIVE sort(_, _)
        sort(i, out) ==
            IF i > Len(byProvince(1, <<>>)) THEN out
            ELSE LET e == byProvince(1, <<>>)[i]
                     k == Cardinality({j \in 1..Len(out) : out[j].n > e.n})
                 IN sort(i + 1, SubSeq(out, 1, k) \o <<e>> \o SubSeq(out, k + 1, Len(out)))
        sorted == sort(1, <<>>)
    IN IF sorted = <<>> THEN <<"U+2014">> ELSE sorted[1].p
TopProvince(rs) ==
    LET RECURSIVE byProvince(_, _)
        byProvince(i, acc) ==
            IF i > Len(rs) THEN acc
            ELSE LET r == rs[i]
                     c == IF r.LMIAs.k = "undef" THEN 0 ELSE r.LMIAs.n
                     at == {j \in 1..Len(acc) : acc[j].p = r.Province}
                 IN IF Len(r.Province) = 0 THEN byProvince(i + 1, acc)
                    ELSE IF at = {}
                    THEN byProvince(i + 1, Append(acc, [p |-> r.Province, n |-> c]))
                    ELSE byProvince(i + 1,
                             [j \in 1..Len(acc) |->
                                 IF j \in at THEN [acc[j] EXCEPT !.n = @ + c] ELSE acc[j]])
        RECURSIVE sort(_, _)
        sort(i, out) ==
            IF i > Len(byProvince(1, <<>>)) THEN out
            ELSE LET e == byProvince(1, <<>>)[i]
                     k == Cardinality({j \in 1..Len(out) : out[j].n >= e.n})
                 IN sort(i + 1, SubSeq(out, 1, k) \o <<e>> \o SubSeq(out, k + 1, Len(out)))
        sorted == sort(1, <<>>)
    IN IF sorted = <<>> THEN <<"U+2014">> ELSE sorted[1].p

\* Sum of the approvals of a province over a list of records
ProvinceSum(rs, p) ==
    LET RECURSIVE sum(_)
        sum(i) == IF i = 0 THEN 0
                  ELSE sum(i - 1) + (IF rs[i].Province = p THEN rs[i].LMIAs.n ELSE 0)
    IN sum(Len(rs))

\* Position of the first record of a province
FirstOf(rs, p) == CHOOSE i \in 1..Len(rs) : rs[i].Province = p /\ \A j \in 1..(i - 1) : rs[j].Province # p

\* C24: in the provider-backed explorer the top province has the maximal
\* summed approval count over the filtered records; among provinces tied for
\* the maximum it is the one whose first record comes earliest; with no
\* filtered record the dash is shown.
C24_TopProvince ==
    (variant = "provider" /\ Interactive) =>
        LET f == filtered
            top == TopProvince(f)
            present == {f[i].Province : i \in 1..Len(f)}
        IN IF f = <<>> THEN top = <<"U+2014">>
           ELSE /\ top \in present
                /\ \A q \in present : ProvinceSum(f, q) <= ProvinceSum(f, top)
                /\ \A q \in present :
                       ProvinceSum(f, q) = ProvinceSum(f, top) => FirstOf(f, top) <= FirstOf(f, q)

\* two provinces tie for the maximum and the one listed first is shown
C24_Witness ==
    /\ variant = "provider"
    /\ Interactive
    /\ \E q \in {filtered[i].Province : i \in 1..Len(filtered)} :
           /\ q # TopProvince(filtered)
           /\ ProvinceSum(filtered, q) = ProvinceSum(filtered, TopProvince(filtered))
           /\ FirstOf(filtered, TopProvince(filtered)) < FirstOf(filtered, q)

(***************************************************************************)
(* Pages of the explorer (SpecExplorer, SpecView)                          *)
(***************************************************************************)

\* The least number of pages of the given size that hold n records
CeilingOf(n, size) == CHOOSE k \in 0..n : k * size >= n /\ \A j \in 0..(k - 1) : j * size < n

\* C21: in each explorer file the page count is the ceiling of
\* filteredCount / pageSize and is never less than 1, also when no record
\* passes the filter.
C21_PageCount ==
    Interactive =>
        /\ totalPages >= 1
        /\ totalPages = IF CeilingOf(Len(filtered), rowsPerPage) < 1 THEN 1
                        ELSE CeilingOf(Len(filtered), rowsPerPage)

\* C22: once the table is displayed, after any loads, filter changes,
\* page-size changes and page requests, the current page lies between 1 and
\* the page count.
C22_PageInRange ==
    Interactive => (1 <= currentPage /\ currentPage <= totalPages)

\* C23: a step that changes the employer text, the province, the city, the
\* program stream, the minimum-approvals input or the page size leaves the
\* current page at 1, whatever page was shown before.
C23_ChangeResetsPage ==
    [][(\/ employer' # employer
        \/ province' # province
        \/ city' # city
        \/ stream' # stream
        \/ minLMIAs' # minLMIAs
        \/ rowsPerPage' # rowsPerPage) => currentPage' = 1]_vars

\* a filter was changed while a later page was shown
C23_Witness ==
    /\ pageBefore > 1
    /\ currentPage = 1
    /\ exOp \in {"setEmployer", "handleProvinceChange", "setCity", "quickCity", "setStream"}

(***************************************************************************)
(* The dataset fetch (SpecView, SpecViewFair)                              *)
(***************************************************************************)

\* C25: after a failed fetch the error is set and loading is false; in the
\* provider-backed explorer no record is loaded then; no later step clears
\* the error; and whether the fetch succeeds or fails, loading becomes false
\* and stays false.
C25_ErrorState ==
    /\ [](exOp = "fetchFails" => exError # NoLoadError)
    /\ [](exError # NoLoadError => ~exLoading)
    /\ []((variant = "provider" /\ exError # NoLoadError) => rows = <<>>)
    /\ [][exError # NoLoadError => exError' = exError]_vars
    /\ <>[](~exLoading)

\* the fetch of the provider-backed explorer has failed
C25_Witness ==
    /\ variant = "provider"
    /\ exOp = "fetchFails"
    /\ exError = LoadFailed
    /\ ~exLoading
    /\ rows = <<>>

\* C26: the dataset is fetched exactly once: one fetch has been started, at
\* most one is outstanding, and the records are set at most once.
C26_FetchedOnce ==
    /\ fetchLog.started = 1
    /\ Len(inflight) <= 1
    /\ fetchLog.loaded <= 1

(***************************************************************************)
(* The local-storage auth provider (SpecLocalAuth)                         *)
(***************************************************************************)

\* C30: the stored user list never holds two entries whose emails are equal
\* ignoring case.
C30_EmailsUnique ==
    \A i, j \in 1..Len(lsUsers) :
        i # j => toLowerCase(lsUsers[i].email) # toLowerCase(lsUsers[j].email)

====
